---- MODULE Spec2Model ----
(***************************************************************************)
(* A model of aomg/basetypes.py: the branching object store (Universe,     *)
(* BranchingObject, BranchingOrderedDictionary), the condition terms, the  *)
(* vertex deduction engine, the ports and the generation driver.           *)
(*                                                                         *)
(* Each subsystem has its own specification over its own variables; the    *)
(* variables of the other subsystems are pinned to their idle value.       *)
(***************************************************************************)
EXTENDS Integers, Sequences, FiniteSets, TLC

VARIABLES
    objs,       \* store: the Python objects, a sequence of records
    h2o,        \* store: Universe.history_to_object of every universe, keyed by history
    nUni,       \* store: number of Universe objects created so far
    related,    \* store: Universe.related_universes of every universe
    held,       \* store: the objects the caller holds: the root and its forks
    lastOp,     \* store: the last call made: its name, arguments and exception
    scope,      \* store: the type of the root and the forks, keys and values used
    condCount,  \* conditions: the count given to AtLeast
    condArgs,   \* conditions: the conditions given to AtLeast
    condResult, \* conditions: what AtLeast returned
    condDepth,  \* conditions: how often a result was used as an argument
    condKnown,  \* conditions: is_known and known_access of the vertices referred to
    theWorld,   \* world: the objects of the world, the exception of the last call
    firstRun,   \* world: what the first of two runs of generate ended with
    gen,        \* world: where generate is: its run, position, choices, choices_made
    seed,       \* world: the random source of the seed given to generate
    plan,       \* world: the conditions and calls a behaviour uses
    calc        \* terms: a call of a method of a condition: its arguments and result

storeVars == <<objs, h2o, nUni, related, held, lastOp, scope>>
condVars == <<condCount, condArgs, condResult, condDepth, condKnown>>

worldVars == <<theWorld, firstRun, gen, seed, plan>>

treeVars == <<calc>>

vars == <<storeVars, condVars, worldVars, treeVars>>

\* What the calls on one subsystem leave alone.
notStoreVars == <<condVars, worldVars, treeVars>>
notCondVars == <<storeVars, worldVars, treeVars>>
notWorldVars == <<storeVars, condVars, treeVars>>
notTreeVars == <<storeVars, condVars, worldVars>>

(***************************************************************************)
(* Bounds of the store model.                                              *)
(***************************************************************************)
MaxForks == 2        \* BranchingObject.fork() calls in one behaviour
MaxKey == 3          \* dictionary keys are 1..MaxKey
MaxVal == 2          \* attribute and item values are 1..MaxVal

AttrNames == {"sdf", "jkl"}
DictKeys == 1..MaxKey
Values == 1..MaxVal

\* An attribute name is a pair: a plain attribute "sdf" is <<"sdf", 0>>, the
\* tuple name ('_valuefor', k) is <<"_valuefor", k>>.
Attr(n) == <<n, 0>>
PlainAttrs == {Attr(n) : n \in AttrNames}
DictAttrs == {Attr("_first"), Attr("_last"), Attr("_count")}
                \cup {<<n, k>> : n \in {"_valuefor", "_prevfor", "_nextfor"}, k \in DictKeys}

Missing == -1        \* stands for "AttributeError raised"
EmptyDict == [a \in {} |-> 0]

Put(f, k, v) == [x \in (DOMAIN f) \cup {k} |-> IF x = k THEN v ELSE f[x]]
Remove(f, k) == [x \in (DOMAIN f) \ {k} |-> f[x]]
Last(s) == s[Len(s)]
Front(s) == SubSeq(s, 1, Len(s) - 1)

(***************************************************************************)
(* The state of each subsystem while the program does not use it.          *)
(***************************************************************************)
NumVertices == 2     \* vertices that conditions refer to
Vertices == 1..NumVertices

NoResult == [op |-> "none"]
Unknown == [is_known |-> FALSE, known_access |-> FALSE]

StoreIdle ==
    /\ objs = <<>> /\ h2o = EmptyDict /\ nUni = 0 /\ related = <<>> /\ held = {}
    /\ lastOp = [op |-> "idle", obj |-> 0, name |-> Attr(""), value |-> 0, err |-> ""]
    /\ scope = [type |-> "", forks |-> 0, names |-> {}, keys |-> 0, vals |-> 0,
                release |-> FALSE]

CondIdle ==
    /\ condCount = 0 /\ condArgs = <<>> /\ condResult = NoResult /\ condDepth = 0
    /\ condKnown = [v \in Vertices |-> Unknown]

NoWorld == [objs |-> <<>>, err |-> "", ret |-> FALSE]
NoRng == [order |-> <<>>, connection |-> <<>>, commit |-> FALSE, value |-> <<>>]

WorldIdle ==
    /\ theWorld = NoWorld /\ firstRun = NoWorld /\ gen = [pc |-> "idle"]
    /\ seed = NoRng /\ plan = [type |-> "idle"]

TreeIdle == calc = [op |-> "idle"]

(***************************************************************************)
(* The store as one value, so that the methods compose:                    *)
(*   objs[i] = [type, hist (universe_history), hasdict, dict               *)
(*              (__dictionary__), base (base_object, 0 for None)]          *)
(*   h2o[h]  = [strong, obj]: a BranchingObject, or a weakref to one       *)
(*   rel[u]  = related_universes of universe u, universes being 1..nUni    *)
(*   err     = the exception raised by the call, "" for none               *)
(* A value is a number, or a BranchingObject: Ref(o) for objs[o].          *)
(***************************************************************************)
Store == [objs |-> objs, h2o |-> h2o, nUni |-> nUni, rel |-> related, held |-> held,
          err |-> ""]

Ref(o) == Missing - o
IsRef(value) == value < Missing
Deref(value) == Missing - value

\* Universe.__init__: the next universe, related to itself.
Universe(S) == [S EXCEPT !.nUni = S.nUni + 1, !.rel = Append(S.rel, {S.nUni + 1})]

\* BranchingObject.__new__: a fresh object in a universe of its own.
new_object(type) ==
    [objs |-> << [type |-> type, hist |-> <<1>>, hasdict |-> TRUE,
                  dict |-> EmptyDict, base |-> 0] >>,
     h2o |-> [h \in {<<1>>} |-> [strong |-> TRUE, obj |-> 1]],
     nUni |-> 1, rel |-> <<{1}>>, held |-> {1}, err |-> ""]

\* ... and one more of them, which the caller holds.
another_object(S, type) ==
    LET U == S.nUni + 1
        o == Len(S.objs) + 1
    IN [Universe(S) EXCEPT
          !.objs = Append(@, [type |-> type, hist |-> <<U>>, hasdict |-> TRUE,
                              dict |-> EmptyDict, base |-> 0]),
          !.h2o = Put(S.h2o, <<U>>, [strong |-> TRUE, obj |-> o]),
          !.held = @ \cup {o}]

\* A weak reference is alive while its object is referenced from elsewhere: by
\* the caller, by history_to_object itself (an object with a dictionary), or
\* by a value in a dictionary.
alive(S, o) ==
    \/ o \in S.held
    \/ S.objs[o].hasdict
    \/ \E p \in DOMAIN S.objs : \E k \in DOMAIN S.objs[p].dict : S.objs[p].dict[k] = Ref(o)

\* BranchingObject._new
new_blank(S, type, history) ==
    [S EXCEPT !.objs = Append(@, [type |-> type, hist |-> history, hasdict |-> FALSE,
                                  dict |-> EmptyDict, base |-> 0])]

\* A from_history that finds no object through a weak reference.
from_history_strong(S, h) == h \in DOMAIN S.h2o /\ S.h2o[h].strong

\* BranchingObject.from_history; the object is S.objs[from_history_obj(S, h)]
\* in the store from_history(S, h).
from_history_hit(S, h) ==
    h \in DOMAIN S.h2o /\ (S.h2o[h].strong \/ alive(S, S.h2o[h].obj))

from_history(S, h) ==
    IF from_history_hit(S, h) THEN S
    ELSE LET t == S.objs[S.h2o[<<h[1]>>].obj].type
             S1 == new_blank(S, t, h)
         IN [S1 EXCEPT !.h2o = Put(S.h2o, h, [strong |-> FALSE, obj |-> Len(S1.objs)])]

from_history_obj(S, h) ==
    IF from_history_hit(S, h) THEN S.h2o[h].obj ELSE Len(S.objs) + 1

\* The history that _to_immediate_base (drop = 1, no suffix) and _from_base
\* (drop = 0, suffix = the end of the path of the reader) give to from_history.
mapped_history(S, value, drop, suffix) ==
    SubSeq(S.objs[Deref(value)].hist, 1, Len(S.objs[Deref(value)].hist) - drop) \o suffix

\* map_branching_objects with _to_immediate_base or _from_base: the value
\* returned (a number passes through), and the store after the call, in which
\* from_history may have made the object.
map_branching_objects(S, value, drop, suffix) ==
    IF IsRef(value) THEN Ref(from_history_obj(S, mapped_history(S, value, drop, suffix)))
    ELSE value

map_effect(S, value, drop, suffix) ==
    IF IsRef(value) THEN from_history(S, mapped_history(S, value, drop, suffix)) ELSE S

\* One item of a dictionary mapped into the dictionary of o; the names of this
\* model hold no object.
map_item(S, o, name, value, drop, suffix) ==
    [map_effect(S, value, drop, suffix) EXCEPT
        !.objs[o].dict = Put(@, name, map_branching_objects(S, value, drop, suffix))]

RECURSIVE map_dictionary(_, _, _, _, _, _)
map_dictionary(S, o, d, names, drop, suffix) ==
    IF names = {} THEN S
    ELSE LET name == CHOOSE x \in names : TRUE
         IN map_dictionary(map_item(S, o, name, d[name], drop, suffix), o, d,
                           names \ {name}, drop, suffix)

\* Universe.fork, first loop, one (history, val) item.
fork_move_one(S, h, R) ==
    LET e == S.h2o[h]
        v == e.obj
        h2 == Append(h, R)
    IN IF e.strong
       THEN LET clone == Len(S.objs) + 1
                S1 == new_blank(S, S.objs[v].type, h)
            IN [S1 EXCEPT
                  !.objs[clone].hasdict = TRUE,
                  !.objs[clone].dict = S.objs[v].dict,
                  !.objs[v].hist = h2,
                  !.objs[v].hasdict = FALSE,
                  !.objs[v].dict = EmptyDict,
                  !.objs[v].base = clone,
                  !.h2o = Put(Put(S.h2o, h2, [strong |-> FALSE, obj |-> v]),
                              h, [strong |-> TRUE, obj |-> clone])]
       ELSE IF alive(S, v)
       THEN [S EXCEPT !.objs[v].hist = h2,
                      !.h2o = Put(Remove(S.h2o, h), h2, [strong |-> FALSE, obj |-> v])]
       ELSE [S EXCEPT !.h2o = Remove(S.h2o, h)]

RECURSIVE fork_move(_, _, _)
fork_move(S, hs, R) ==
    IF hs = {} THEN S
    ELSE LET h == CHOOSE x \in hs : TRUE
         IN fork_move(fork_move_one(S, h, R), hs \ {h}, R)

\* Universe.fork, second loop: the moved dictionaries are rewritten through
\* _to_immediate_base.
RECURSIVE fork_translate(_, _)
fork_translate(S, hs) ==
    IF hs = {} THEN S
    ELSE LET h == CHOOSE x \in hs : TRUE
             c == S.h2o[h].obj
         IN fork_translate(map_dictionary(S, c, S.objs[c].dict, DOMAIN S.objs[c].dict,
                                          1, <<>>),
                           hs \ {h})

\* Universe.combine_universes: the universe of a value that is an object joins
\* related_universes, which all the universes in it share.
combine_universes(S, U, value) ==
    LET other == Last(S.objs[Deref(value)].hist)
        all == S.rel[U] \cup S.rel[other]
    IN IF ~IsRef(value) THEN S
       ELSE IF S.rel[other] = S.rel[U] THEN S
       ELSE [S EXCEPT !.rel = [u \in DOMAIN S.rel |-> IF u \in all THEN all ELSE S.rel[u]]]

\* Universe.related_universes
related_universes(S, U) == S.rel[U]

\* A fork that moves nothing into a read-only snapshot.
universe_fork_no_snapshot(S, U) == Universe(S)

\* Universe.fork
universe_fork(S, U) ==
    LET R == S.nUni + 1
        objects == {h \in DOMAIN S.h2o : Last(h) \in related_universes(S, U)}
        moved == {h \in objects : S.h2o[h].strong}
        S1 == fork_move(Universe(S), objects, R)
    IN fork_translate(S1, moved)

\* BranchingObject.fork; the forked object is the last one created.
fork(S, o) ==
    LET prev_history == S.objs[o].hist
        S1 == Universe(universe_fork(S, Last(prev_history)))
        new_history == Append(prev_history, S1.nUni)
        S2 == from_history(S1, new_history)
        forked == from_history_obj(S1, new_history)
    IN [S2 EXCEPT !.held = @ \cup {forked}]

\* BranchingObject.ensure_base: the nearest prefix of the history that
\* history_to_object maps to a BranchingObject (not to a weakref).
RECURSIVE find_base(_, _)
find_base(S, history) ==
    IF history \in DOMAIN S.h2o /\ S.h2o[history].strong
    THEN S.h2o[history].obj
    ELSE find_base(S, Front(history))

base_of(S, o) ==
    IF S.objs[o].base # 0 THEN S.objs[o].base ELSE find_base(S, Front(S.objs[o].hist))

ensure_base(S, o) == [S EXCEPT !.objs[o].base = base_of(S, o)]

\* self.universe_history[len(self.base_object.universe_history):]
path_end(S, o) ==
    SubSeq(S.objs[o].hist, Len(S.objs[base_of(S, o)].hist) + 1, Len(S.objs[o].hist))

\* BranchingObject.ensure_dictionary
ensure_dictionary(S, o) ==
    IF S.objs[o].hasdict THEN S
    ELSE LET S1 == ensure_base(S, o)
             b == S1.objs[o].base
             S2 == map_dictionary(S1, o, S1.objs[b].dict, DOMAIN S1.objs[b].dict,
                                  0, path_end(S1, o))
         IN [S2 EXCEPT !.objs[o].hasdict = TRUE,
                       !.h2o = Put(S2.h2o, S2.objs[o].hist, [strong |-> TRUE, obj |-> o])]

\* Attributes defined on the class: BranchingOrderedDictionary._count = 0.
class_attribute(type, name) ==
    IF type = "BranchingOrderedDictionary" /\ name = Attr("_count") THEN 0 ELSE Missing

\* BranchingObject.__getattribute__: the value, Missing for AttributeError.
getattr(S, o, name) ==
    LET d == IF S.objs[o].hasdict THEN S.objs[o].dict
             ELSE S.objs[base_of(S, o)].dict
    IN IF name \in DOMAIN d
       THEN (IF S.objs[o].hasdict THEN d[name]
             ELSE map_branching_objects(S, d[name], 0, path_end(S, o)))
       ELSE class_attribute(S.objs[o].type, name)

\* ... and its effect on the object: a read without a dictionary sets base_object.
getattr_effect(S, o) == IF S.objs[o].hasdict THEN S ELSE ensure_base(S, o)

\* ... and on the store: translate_from_base makes the object that is read
\* from a base if there is none yet.
getattr_made(S, o, name) ==
    IF S.objs[o].hasdict \/ name \notin DOMAIN S.objs[base_of(S, o)].dict THEN getattr_effect(S, o)
    ELSE map_effect(ensure_base(S, o), S.objs[base_of(S, o)].dict[name], 0, path_end(S, o))

hasattr(S, o, name) == getattr(S, o, name) # Missing

\* BranchingObject.__setattr__
setattr(S, o, name, value) ==
    LET S1 == combine_universes(ensure_dictionary(S, o), Last(S.objs[o].hist), value)
    IN [S1 EXCEPT !.objs[o].dict = Put(@, name, value)]

\* BranchingObject.delattr: KeyError when the dictionary does not hold the name
\* (an attribute of the class cannot be deleted from the object).
delattr(S, o, name) ==
    LET S1 == ensure_dictionary(S, o)
    IN IF name \in DOMAIN S1.objs[o].dict
       THEN [S1 EXCEPT !.objs[o].dict = Remove(@, name)]
       ELSE [S1 EXCEPT !.err = "KeyError"]

\* BranchingObject.popattr
popattr(S, o, name) ==
    IF hasattr(S, o, name) THEN delattr(getattr_effect(S, o), o, name)
    ELSE [getattr_effect(S, o) EXCEPT !.err = "AttributeError"]

(***************************************************************************)
(* BranchingOrderedDictionary: a doubly linked list kept in the attributes *)
(* _first, _last, _count, (_valuefor, k), (_prevfor, k), (_nextfor, k).    *)
(***************************************************************************)
raised(S) == S.err # ""

\* self._count += n
add_count(S, o, n) == setattr(getattr_effect(S, o), o, Attr("_count"),
                              getattr(S, o, Attr("_count")) + n)

\* An insertion that links the new key in front of the first one.
setitem_at_front(S, o, key, value) ==
    IF hasattr(S, o, <<"_valuefor", key>>)
    THEN setattr(getattr_effect(S, o), o, <<"_valuefor", key>>, value)
    ELSE LET first == getattr(S, o, Attr("_first"))
             S0 == getattr_effect(S, o)
         IN IF first = Missing
            THEN add_count(setattr(setattr(setattr(S0, o, Attr("_first"), key),
                               o, Attr("_last"), key), o, <<"_valuefor", key>>, value), o, 1)
            ELSE add_count(setattr(setattr(setattr(setattr(S0,
                               o, <<"_prevfor", first>>, key), o, <<"_nextfor", key>>, first),
                               o, Attr("_first"), key), o, <<"_valuefor", key>>, value), o, 1)

\* BranchingOrderedDictionary.__setitem__
setitem(S, o, key, value) ==
    IF hasattr(S, o, <<"_valuefor", key>>)
    THEN setattr(getattr_effect(S, o), o, <<"_valuefor", key>>, value)
    ELSE LET last == getattr(S, o, Attr("_last"))
             S0 == getattr_effect(S, o)
         IN IF last = Missing
            THEN LET S1 == setattr(S0, o, Attr("_first"), key)
                     S2 == setattr(S1, o, Attr("_last"), key)
                     S3 == setattr(S2, o, <<"_valuefor", key>>, value)
                 IN add_count(S3, o, 1)
            ELSE LET S1 == setattr(S0, o, <<"_nextfor", last>>, key)
                     S2 == setattr(S1, o, <<"_prevfor", key>>, last)
                     S3 == setattr(S2, o, Attr("_last"), key)
                     S4 == setattr(S3, o, <<"_valuefor", key>>, value)
                 IN add_count(S4, o, 1)

\* BranchingOrderedDictionary.__delitem__, after the value was popped; a
\* statement that raises ends the method.
delitem_unlink(S, o, key) ==
    LET prev == getattr(S, o, <<"_prevfor", key>>)
        next == getattr(S, o, <<"_nextfor", key>>)
        P == popattr(S, o, <<"_prevfor", key>>)
        N == popattr(S, o, <<"_nextfor", key>>)
        PN == popattr(P, o, <<"_nextfor", key>>)
        F == delattr(S, o, Attr("_first"))
    IN IF prev = Missing
       THEN IF next = Missing
            THEN \* no items left
                 IF getattr(S, o, Attr("_count")) # 1
                 THEN [S EXCEPT !.err = "AssertionError"]
                 ELSE IF raised(F) THEN F ELSE delattr(F, o, Attr("_last"))
            ELSE \* old first item
                 IF raised(N) THEN N
                 ELSE delattr(setattr(N, o, Attr("_first"), next), o, <<"_prevfor", next>>)
       ELSE IF next = Missing
            THEN \* old last item
                 IF raised(P) THEN P
                 ELSE delattr(setattr(P, o, Attr("_last"), prev), o, <<"_nextfor", prev>>)
            ELSE \* middle item
                 IF raised(P) THEN P
                 ELSE IF raised(PN) THEN PN
                 ELSE setattr(setattr(PN, o, <<"_nextfor", prev>>, next),
                              o, <<"_prevfor", next>>, prev)

delitem(S, o, key) ==
    LET V == popattr(S, o, <<"_valuefor", key>>)
        U == delitem_unlink(V, o, key)
    IN IF raised(V) THEN V
       ELSE IF raised(U) THEN U
       ELSE add_count(U, o, -1)

\* BranchingOrderedDictionary.items, run to its end with no call in between:
\* the pairs yielded.  A missing value shows as Missing; a walk longer than
\* the keys there are (the generator would not end) is cut with a Missing pair.
RECURSIVE items_from(_, _, _, _)
items_from(S, o, key, fuel) ==
    IF fuel = 0 \/ key = Missing THEN << <<Missing, Missing>> >>
    ELSE LET value == getattr(S, o, <<"_valuefor", key>>)
             next == getattr(S, o, <<"_nextfor", key>>)
         IN IF next = Missing THEN << <<key, value>> >>
            ELSE << <<key, value>> >> \o items_from(S, o, next, fuel - 1)

items(S, o) ==
    IF getattr(S, o, Attr("_count")) = 0 THEN <<>>
    ELSE items_from(S, o, getattr(S, o, Attr("_first")), MaxKey + 1)

\* The generator items() returns, before its first next().
NewGenerator == [pc |-> "new", count |-> 0, key |-> Missing, item |-> <<>>]

\* ... value = self.getattr(('_valuefor', key)); yield (key, value)
items_yield(S, o, g, key) ==
    IF getattr(S, o, <<"_valuefor", key>>) = Missing
    THEN [g EXCEPT !.pc = "AttributeError", !.item = <<>>]
    ELSE [g EXCEPT !.pc = "yielded", !.key = key,
                   !.item = <<key, getattr(S, o, <<"_valuefor", key>>)>>]

\* A generator that goes on to the next key without looking at _count.
items_next_unchecked(S, o, g) ==
    IF g.pc = "new"
    THEN (IF getattr(S, o, Attr("_count")) = 0 THEN [g EXCEPT !.pc = "done"]
          ELSE items_yield(S, o, [g EXCEPT !.count = getattr(S, o, Attr("_count"))],
                           getattr(S, o, Attr("_first"))))
    ELSE IF getattr(S, o, <<"_nextfor", g.key>>) = Missing
    THEN [g EXCEPT !.pc = "done", !.item = <<>>]
    ELSE items_yield(S, o, g, getattr(S, o, <<"_nextfor", g.key>>))

\* BranchingOrderedDictionary.items: next() on the generator g, which has
\* not started or is at its yield.  pc is "yielded" with the item, "done"
\* for StopIteration, or the exception raised.
items_next(S, o, g) ==
    IF g.pc = "new"
    THEN (IF getattr(S, o, Attr("_count")) = 0 THEN [g EXCEPT !.pc = "done"]
          ELSE items_yield(S, o, [g EXCEPT !.count = getattr(S, o, Attr("_count"))],
                           getattr(S, o, Attr("_first"))))
    ELSE IF getattr(S, o, Attr("_count")) # g.count
    THEN [g EXCEPT !.pc = "RuntimeError", !.item = <<>>]
    ELSE IF getattr(S, o, <<"_nextfor", g.key>>) = Missing
    THEN [g EXCEPT !.pc = "done", !.item = <<>>]
    ELSE items_yield(S, o, g, getattr(S, o, <<"_nextfor", g.key>>))

\* BranchingOrderedDictionary.__len__
len(S, o) == getattr(S, o, Attr("_count"))

\* BranchingOrderedDictionary.__contains__
contains(S, o, key) == hasattr(S, o, <<"_valuefor", key>>)

(***************************************************************************)
(* The calls a program makes on the store.  The root object is either a    *)
(* plain BranchingObject or a BranchingOrderedDictionary.                  *)
(***************************************************************************)
\* A behaviour is about one root object, a plain object or a dictionary, and
\* uses some of the forks, names, keys and values: the more forks, the fewer of
\* the others.  The caller may drop forks where release is set.
Scope(type, forks, names, keys, vals, release) ==
    [type |-> type, forks |-> forks, names |-> names, keys |-> keys, vals |-> vals,
     release |-> release]

Scopes ==
    { Scope("BranchingObject", MaxForks - 1, AttrNames, 0, MaxVal, FALSE),
      Scope("BranchingObject", MaxForks, AttrNames, 0, MaxVal - 1, FALSE),
      Scope("BranchingObject", MaxForks, {"sdf"}, 0, MaxVal - 1, TRUE),
      Scope("BranchingOrderedDictionary", 0, {}, MaxKey, MaxVal, FALSE),
      Scope("BranchingOrderedDictionary", MaxForks - 1, {}, MaxKey - 1, MaxVal, FALSE),
      Scope("BranchingOrderedDictionary", MaxForks, {}, MaxKey - 2, MaxVal - 1, FALSE) }

Call(op, o, name, value) == [op |-> op, obj |-> o, name |-> name, value |-> value, err |-> ""]

StoreInit ==
    \E sc \in Scopes :
        /\ CondIdle
        /\ WorldIdle
        /\ TreeIdle
        /\ scope = sc
        /\ objs = new_object(sc.type).objs
        /\ h2o = new_object(sc.type).h2o
        /\ nUni = 1
        /\ related = new_object(sc.type).rel
        /\ held = {1}
        /\ lastOp = Call("new", 1, Attr(""), 0)

\* The call returned or raised; either way what it did to the store stays.
Commit(S, call) ==
    /\ objs' = S.objs
    /\ h2o' = S.h2o
    /\ nUni' = S.nUni
    /\ related' = S.rel
    /\ held' = S.held
    /\ lastOp' = [call EXCEPT !.err = S.err]
    /\ scope' = scope
    /\ UNCHANGED notStoreVars

IsPlain(o) == objs[o].type = "BranchingObject"
IsDict(o) == objs[o].type = "BranchingOrderedDictionary"

\* obj.name = v
SetAttr(o, n, v) ==
    /\ IsPlain(o) /\ n[1] \in scope.names /\ v <= scope.vals
    /\ Commit(setattr(Store, o, n, v), Call("setattr", o, n, v))

\* del obj.name
DelAttr(o, n) ==
    /\ IsPlain(o) /\ n[1] \in scope.names
    /\ Commit(delattr(Store, o, n), Call("delattr", o, n, 0))

\* obj.name read on an object that has no dictionary and no base_object yet
GetAttr(o) ==
    /\ objs[o].base = 0 /\ ~objs[o].hasdict
    /\ Commit(getattr_effect(Store, o), Call("getattr", o, Attr(""), 0))

\* d[k] = v
SetItem(o, k, v) ==
    /\ IsDict(o) /\ k <= scope.keys /\ v <= scope.vals
    /\ Commit(setitem(Store, o, k, v), Call("setitem", o, <<"", k>>, v))

\* del d[k]
DelItem(o, k) ==
    /\ IsDict(o) /\ k <= scope.keys
    /\ Commit(delitem(Store, o, k), Call("delitem", o, <<"", k>>, 0))

\* obj.fork(), the caller keeping the result
Fork(o) ==
    /\ nUni < 1 + 2 * scope.forks
    /\ Commit(fork(Store, o), Call("fork", o, Attr(""), 0))

\* The caller drops its last reference to a fork; an object without a
\* dictionary is then collected and its weakref in history_to_object dies.
Release(o) ==
    /\ scope.release /\ o # 1
    /\ Commit([Store EXCEPT !.held = @ \ {o}], Call("release", o, Attr(""), 0))

StoreNext ==
    \/ \E o \in held, n \in PlainAttrs, v \in Values : SetAttr(o, n, v)
    \/ \E o \in held, n \in PlainAttrs : DelAttr(o, n)
    \/ \E o \in held : GetAttr(o)
    \/ \E o \in held, k \in DictKeys, v \in Values : SetItem(o, k, v)
    \/ \E o \in held, k \in DictKeys : DelItem(o, k)
    \/ \E o \in held : Fork(o)
    \/ \E o \in held : Release(o)

Spec == StoreInit /\ [][StoreNext]_vars

(***************************************************************************)
(* Writes into a snapshot.  A caller reaches the read-only clone that a    *)
(* fork made of an object through obj.base_object after obj.ensure_base(). *)
(***************************************************************************)
\* One plain object, forked once.
SnapInit == StoreInit /\ scope = Scope("BranchingObject", MaxForks - 1, AttrNames, 0, MaxVal, FALSE)

\* obj.ensure_base(); obj.base_object.name = v
WriteSnapshot(o, n, v) ==
    /\ Len(objs[o].hist) >= 2
    /\ Commit(setattr(ensure_base(Store, o), base_of(Store, o), n, v),
              Call("setattr_snapshot", o, n, v))

SnapNext ==
    \/ \E o \in held, n \in PlainAttrs, v \in Values : SetAttr(o, n, v)
    \/ \E o \in held, n \in PlainAttrs : DelAttr(o, n)
    \/ \E o \in held : Fork(o)
    \/ \E o \in held, n \in PlainAttrs, v \in Values : WriteSnapshot(o, n, v)

SpecSnap == SnapInit /\ [][SnapNext]_vars

\* C19: a write into the snapshot of a forked object is rejected with an error
\* and leaves the attributes stored in the snapshot as they are.
SnapshotWriteRejected ==
    [][ lastOp'.op = "setattr_snapshot" =>
            /\ lastOp'.err # ""
            /\ LET snapshot == base_of(Store, lastOp'.obj)
               IN objs'[snapshot].dict = objs[snapshot].dict
      ]_vars

\* A write into the snapshot went through, and the fork that was not written
\* shows the value written.
SnapshotWritten ==
    /\ lastOp.op = "setattr_snapshot" /\ lastOp.err = ""
    /\ \E q \in held \ {lastOp.obj} :
          /\ ~objs[q].hasdict
          /\ getattr(Store, q, lastOp.name) = lastOp.value
          /\ objs[base_of(Store, q)].dict[lastOp.name] = lastOp.value

(***************************************************************************)
(* What a caller can observe through one object.                           *)
(***************************************************************************)
AttrView(S, o) == [n \in PlainAttrs |-> getattr(S, o, n)]
ItemView(S, o) == items(S, o)
View(S, o) == IF S.objs[o].type = "BranchingObject" THEN AttrView(S, o) ELSE ItemView(S, o)

Keys(its) == {its[i][1] : i \in DOMAIN its}
Index(its, k) == CHOOSE i \in DOMAIN its : its[i][1] = k
Without(its, k) == SubSeq(its, 1, Index(its, k) - 1) \o SubSeq(its, Index(its, k) + 1, Len(its))

\* Between the store S before a call and the store T after it.
OthersKeep(S, T, o) == \A p \in S.held \ {o} : View(T, p) = View(S, p)
AllKeep(S, T) == \A p \in S.held \cap T.held : View(T, p) = View(S, p)

\* C1: fork isolation.  A fork leaves what every object shows unchanged and the
\* forked object shows what the original shows; a write or delete through one
\* object changes that object as asked and is never visible through any other
\* (the original, sibling forks, forks of forks), for attributes and for the
\* items and iteration order of a dictionary alike.
ForkIsolation ==
    [][ LET S == Store
            T == Store'
            o == lastOp'.obj
            n == lastOp'.name
            v == lastOp'.value
            op == lastOp'.op
        IN /\ op = "fork" => /\ AllKeep(S, T)
                             /\ \A q \in T.held \ S.held : View(T, q) = View(S, o)
           /\ op = "setattr" => /\ AttrView(T, o) = [AttrView(S, o) EXCEPT ![n] = v]
                                /\ OthersKeep(S, T, o)
           /\ op = "delattr" => /\ AttrView(T, o) = [AttrView(S, o) EXCEPT ![n] = Missing]
                                /\ OthersKeep(S, T, o)
           /\ op = "setitem" => /\ \E i \in DOMAIN ItemView(T, o) : ItemView(T, o)[i] = <<n[2], v>>
                                /\ OthersKeep(S, T, o)
           /\ op = "delitem" => /\ n[2] \notin Keys(ItemView(T, o))
                                /\ OthersKeep(S, T, o)
           /\ op \in {"getattr", "release"} => AllKeep(S, T)
      ]_vars

\* Three objects, one of them the fork of a fork, after a write through one and
\* a delete through another: each shows something else.
ForkIsolationWitness ==
    \E a \in held, b \in held, c \in held :
        /\ IsPlain(a) /\ Len(objs[c].hist) >= 3
        /\ AttrView(Store, a) = [n \in PlainAttrs |-> IF n = Attr("sdf") THEN 1 ELSE Missing]
        /\ AttrView(Store, b) = [n \in PlainAttrs |-> 1]
        /\ AttrView(Store, c) = [n \in PlainAttrs |-> Missing]

\* The attributes that encode the list agree with the items yielded.
Consistent(S, o) ==
    LET its == ItemView(S, o)
        n == Len(its)
    IN /\ \A i \in 1..n : its[i][1] \in DictKeys /\ its[i][2] \in Values
       /\ \A i \in 1..n, j \in 1..n : its[i][1] = its[j][1] => i = j
       /\ len(S, o) = n
       /\ \A k \in DictKeys : contains(S, o, k) <=> k \in Keys(its)
       /\ getattr(S, o, Attr("_first")) = (IF n = 0 THEN Missing ELSE its[1][1])
       /\ getattr(S, o, Attr("_last")) = (IF n = 0 THEN Missing ELSE its[n][1])
       /\ \A i \in 1..n :
            /\ getattr(S, o, <<"_prevfor", its[i][1]>>)
                  = (IF i = 1 THEN Missing ELSE its[i - 1][1])
            /\ getattr(S, o, <<"_nextfor", its[i][1]>>)
                  = (IF i = n THEN Missing ELSE its[i + 1][1])
       /\ \A k \in DictKeys \ Keys(its) :
            /\ ~hasattr(S, o, <<"_prevfor", k>>)
            /\ ~hasattr(S, o, <<"_nextfor", k>>)

\* C8: dictionary ordering.  items() yields the keys present, each with its
\* latest value, in insertion order: an insertion appends, an overwrite keeps
\* the position, a deletion (first, middle, last, only) removes the key and
\* keeps the order of the rest, so that a re-insertion goes to the end; len() is
\* the number of items and _first, _last, _prevfor, _nextfor form a consistent
\* doubly linked list over them.
DictionaryOrdering ==
    /\ [](\A o \in held : IsDict(o) => Consistent(Store, o))
    /\ [][ LET o == lastOp'.obj
               k == lastOp'.name[2]
               v == lastOp'.value
               its == ItemView(Store, o)
               its2 == ItemView(Store', o)
           IN /\ lastOp'.op = "setitem" =>
                   /\ lastOp'.err = ""
                   /\ its2 = IF k \in Keys(its)
                             THEN [its EXCEPT ![Index(its, k)] = <<k, v>>]
                             ELSE Append(its, <<k, v>>)
              /\ lastOp'.op = "delitem" =>
                   /\ lastOp'.err = "" <=> k \in Keys(its)
                   /\ its2 = IF k \in Keys(its) THEN Without(its, k) ELSE its
         ]_vars

\* A key deleted from the middle and inserted again sits at the end, behind a
\* key that was inserted after it and then overwritten.
DictionaryOrderingWitness ==
    \E o \in held : IsDict(o) /\ ItemView(Store, o) = << <<1, 1>>, <<3, 2>>, <<2, 1>> >>

(***************************************************************************)
(* Objects as values.  A second object, which the caller holds, is the     *)
(* value of attributes and items of the root and of the objects read from  *)
(* it and from its forks.                                                  *)
(***************************************************************************)
RefScopes ==
    { Scope("BranchingObject", MaxForks - 1, AttrNames, 0, MaxVal, FALSE),
      Scope("BranchingOrderedDictionary", MaxForks - 1, {"jkl"}, MaxKey - 2, MaxVal, FALSE) }

RefInit ==
    \E sc \in RefScopes :
        /\ CondIdle
        /\ WorldIdle
        /\ TreeIdle
        /\ scope = sc
        /\ objs = another_object(new_object(sc.type), "BranchingObject").objs
        /\ h2o = another_object(new_object(sc.type), "BranchingObject").h2o
        /\ nUni = 2
        /\ related = another_object(new_object(sc.type), "BranchingObject").rel
        /\ held = {1, 2}
        /\ lastOp = Call("new", 2, Attr(""), 0)

\* x = obj.name, the caller keeping x, an object
ReadAttr(o, n) ==
    /\ IsPlain(o) /\ n[1] \in scope.names /\ IsRef(getattr(Store, o, n))
    /\ Commit([getattr_made(Store, o, n) EXCEPT !.held = @ \cup {Deref(getattr(Store, o, n))}],
              Call("read", o, n, getattr(Store, o, n)))

\* x = d[k], the caller keeping x, an object
ReadItem(o, k) ==
    /\ IsDict(o) /\ k <= scope.keys /\ IsRef(getattr(Store, o, <<"_valuefor", k>>))
    /\ Commit([getattr_made(Store, o, <<"_valuefor", k>>)
                  EXCEPT !.held = @ \cup {Deref(getattr(Store, o, <<"_valuefor", k>>))}],
              Call("read", o, <<"_valuefor", k>>, getattr(Store, o, <<"_valuefor", k>>)))

\* The root and the objects forked from it hold, in sdf or as items, the
\* second object and the objects forked and read from it, which hold numbers.
Holders == {o \in held : objs[o].hist[1] = 1}
Values2 == {o \in held : objs[o].hist[1] = 2}

RefNext ==
    \/ \E o \in Holders, p \in Values2 : SetAttr(o, Attr("sdf"), Ref(p))
    \/ \E o \in Values2, v \in Values : SetAttr(o, Attr("jkl"), v)
    \/ \E o \in held, n \in PlainAttrs : DelAttr(o, n)
    \/ \E o \in held, n \in PlainAttrs : ReadAttr(o, n)
    \/ \E o \in Holders, k \in DictKeys, p \in Values2 : SetItem(o, k, Ref(p))
    \/ \E o \in held, k \in DictKeys : DelItem(o, k)
    \/ \E o \in held, k \in DictKeys : ReadItem(o, k)
    \/ \E o \in held : Fork(o)

SpecRef == RefInit /\ [][RefNext]_vars

\* What the caller H of objects sees in obj.name: a number, Missing, an
\* object it holds, or (0) an object it does not hold.
ShownValue(S, H, o, n) ==
    IF ~IsRef(getattr(S, o, n)) THEN getattr(S, o, n)
    ELSE IF Deref(getattr(S, o, n)) \in H THEN getattr(S, o, n) ELSE 0

ShownNames(S, o) ==
    IF S.objs[o].type = "BranchingObject" THEN PlainAttrs
    ELSE {<<"_valuefor", k>> : k \in DictKeys}

Shown(S, H, o) == [n \in ShownNames(S, o) |-> ShownValue(S, H, o, n)]

\* C15: object identity within a universe.  The object read from an attribute
\* or item is the one a second read yields, and stays so whatever is done
\* through other objects; the fork of an object shows the numbers the original
\* shows, and where the original shows an object the fork shows another one,
\* which the caller has never held; a write or delete through an object,
\* forked or read from a fork, changes what no other object shows.
ObjectIdentity ==
    [][ LET S == Store
            T == Store'
            H == S.held \cap T.held
            o == lastOp'.obj
            n == lastOp'.name
            v == lastOp'.value
            op == lastOp'.op
        IN /\ op = "read" => /\ getattr(T, o, n) = v
                             /\ Deref(v) \in T.held
                             /\ \A p \in H : Shown(T, H, p) = Shown(S, H, p)
           /\ op = "fork" =>
                /\ \A p \in H : Shown(T, H, p) = Shown(S, H, p)
                /\ \A q \in T.held \ S.held : \A m \in ShownNames(S, o) :
                      IF IsRef(getattr(S, o, m))
                      THEN /\ IsRef(getattr(T, q, m))
                           /\ getattr(T, q, m) # getattr(S, o, m)
                           /\ Deref(getattr(T, q, m)) \notin S.held
                      ELSE getattr(T, q, m) = getattr(S, o, m)
           /\ op \in {"setattr", "setitem"} =>
                /\ lastOp'.err = ""
                /\ getattr(T, o, IF op = "setattr" THEN n ELSE <<"_valuefor", n[2]>>) = v
                /\ \A p \in H \ {o} : Shown(T, H, p) = Shown(S, H, p)
           /\ op \in {"delattr", "delitem"} =>
                \A p \in H \ {o} : Shown(T, H, p) = Shown(S, H, p)
           /\ op \in {"getattr", "release"} => \A p \in H : Shown(T, H, p) = Shown(S, H, p)
      ]_vars

\* The object read twice from the fork of the root, after a write through it:
\* it shows 2 where the object the root refers to shows 1.
ObjectIdentityWitness ==
    \E q \in held, r \in held :
        /\ lastOp.op = "read" /\ lastOp.obj = q /\ lastOp.value = Ref(r)
        /\ Len(objs[q].hist) = 2 /\ Len(objs[r].hist) = 2
        /\ Last(objs[q].hist) = Last(objs[r].hist)
        /\ getattr(Store, r, Attr("jkl")) = 2
        /\ getattr(Store, 2, Attr("jkl")) = 1
        /\ ShownValue(Store, held, 1, lastOp.name) = Ref(2)

(***************************************************************************)
(* Conditions.  A condition is a record: op is the class, and count,       *)
(* conditions, vertex, name, base are its slots.  An argument of AtLeast   *)
(* may also be a VertexType object or a list of arguments.                 *)
(***************************************************************************)
MaxArgs == 2         \* arguments given to AtLeast
MaxList == 2         \* length of a list given as one argument
MaxDepth == 1        \* results used again as an argument

TrueCondition == [op |-> "TrueCondition"]
FalseCondition == [op |-> "FalseCondition"]
AtLeastCondition(count, conditions) ==
    [op |-> "AtLeastCondition", count |-> count, conditions |-> conditions]
PlaceholderCondition(name, base) == [op |-> "PlaceholderCondition", name |-> name, base |-> base]
VertexCondition(vertex) == [op |-> "VertexCondition", vertex |-> vertex]
EnumCondition(enum, values) == [op |-> "EnumCondition", enum |-> enum, values |-> values]
VertexObject(vertex) == [op |-> "VertexType", vertex |-> vertex]
List(elements) == [op |-> "list", items |-> elements]

RECURSIVE is_known_true(_, _)
RECURSIVE is_known_false(_, _)
RECURSIVE known_true_loop(_, _, _, _, _)
RECURSIVE known_false_loop(_, _, _, _, _)

\* AtLeastCondition.is_known_true: the loop from the i-th condition on.
known_true_loop(K, c, i, known_true, remaining) ==
    IF i > Len(c.conditions) THEN FALSE
    ELSE LET hit == is_known_true(K, c.conditions[i])
             kt == IF hit THEN known_true + 1 ELSE known_true
         IN IF hit /\ kt >= c.count THEN TRUE
            ELSE IF kt + (remaining - 1) < c.count THEN FALSE
            ELSE known_true_loop(K, c, i + 1, kt, remaining - 1)

\* A loop that answers one known-false condition too early.
known_false_loop_early(K, c, i, possibly_true, remaining) ==
    IF i > Len(c.conditions) THEN FALSE
    ELSE LET hit == is_known_false(K, c.conditions[i])
             pt == IF hit THEN possibly_true - 1 ELSE possibly_true
         IN IF hit /\ pt <= c.count THEN TRUE
            ELSE IF pt - (remaining - 1) >= c.count THEN FALSE
            ELSE known_false_loop(K, c, i + 1, pt, remaining - 1)

\* AtLeastCondition.is_known_false: the loop from the i-th condition on.
known_false_loop(K, c, i, possibly_true, remaining) ==
    IF i > Len(c.conditions) THEN FALSE
    ELSE LET hit == is_known_false(K, c.conditions[i])
             pt == IF hit THEN possibly_true - 1 ELSE possibly_true
         IN IF hit /\ pt < c.count THEN TRUE
            ELSE IF pt - (remaining - 1) >= c.count THEN FALSE
            ELSE known_false_loop(K, c, i + 1, pt, remaining - 1)

\* Condition.is_known_true of each class; K gives the vertices' is_known and
\* known_access.
is_known_true(K, c) ==
    CASE c.op = "TrueCondition" -> TRUE
      [] c.op = "AtLeastCondition" -> known_true_loop(K, c, 1, 0, Len(c.conditions))
      [] c.op = "VertexCondition" -> K[c.vertex].is_known /\ K[c.vertex].known_access
      [] c.op = "EnumCondition" -> K[c.enum].known /\ K[c.enum].value \in c.values
      [] OTHER -> FALSE

is_known_false(K, c) ==
    CASE c.op = "FalseCondition" -> TRUE
      [] c.op = "AtLeastCondition" ->
            known_false_loop(K, c, 1, Len(c.conditions), Len(c.conditions))
      [] c.op = "VertexCondition" -> K[c.vertex].is_known /\ ~K[c.vertex].known_access
      [] c.op = "EnumCondition" -> K[c.enum].known /\ K[c.enum].value \notin c.values
      [] OTHER -> FALSE

RECURSIVE flatten_and_append_conditions(_, _)
RECURSIVE flatten_each(_, _, _)

\* A flattening that also takes the conditions of an AtLeastCondition apart.
flatten_conditions_too(conditions, l) ==
    IF conditions.op \in {"list", "AtLeastCondition"}
    THEN flatten_each(IF conditions.op = "list" THEN conditions.items
                      ELSE conditions.conditions, 1, l)
    ELSE IF conditions.op = "VertexType" THEN Append(l, VertexCondition(conditions.vertex))
    ELSE Append(l, conditions)

\* _flatten_and_append_conditions: the list l with the conditions appended.
flatten_and_append_conditions(conditions, l) ==
    IF conditions.op = "list" THEN flatten_each(conditions.items, 1, l)
    ELSE IF conditions.op = "VertexType" THEN Append(l, VertexCondition(conditions.vertex))
    ELSE Append(l, conditions)

flatten_each(elements, i, l) ==
    IF i > Len(elements) THEN l
    ELSE flatten_each(elements, i + 1, flatten_and_append_conditions(elements[i], l))

\* An AtLeast without the shortcut for one condition.
AtLeast_no_shortcut(count, conditions) ==
    LET l == flatten_and_append_conditions(List(conditions), <<>>)
    IN IF count <= 0 THEN TrueCondition
       ELSE IF count > Len(l) THEN FalseCondition
       ELSE AtLeastCondition(count, l)

\* AtLeast(count, *conditions)
AtLeast(count, conditions) ==
    LET l == flatten_and_append_conditions(List(conditions), <<>>)
    IN IF count <= 0 THEN TrueCondition
       ELSE IF count > Len(l) THEN FalseCondition
       ELSE IF count = 1 /\ Len(l) = 1 THEN l[1]
       ELSE AtLeastCondition(count, l)

\* Any(*conditions), also named Or
Or(conditions) == AtLeast(1, <<List(conditions)>>)

\* All(*conditions), also named And
And(conditions) ==
    LET l == flatten_and_append_conditions(List(conditions), <<>>)
    IN AtLeast(Len(l), <<List(l)>>)

\* What substitute() replaces: the placeholders of a name, or (when a vertex is
\* given as the name) the conditions on that vertex.
PlaceholderName(name) == [placeholder |-> name, vertex |-> 0]
VertexName(vertex) == [placeholder |-> "", vertex |-> vertex]

RECURSIVE substitute(_, _, _, _)
\* A substitute that replaces the placeholders of a name whatever their base.
substitute_any_base(c, name, condition, base) ==
    CASE c.op = "PlaceholderCondition" ->
            IF name.placeholder = c.name THEN condition ELSE c
      [] c.op = "VertexCondition" ->
            IF name.vertex = c.vertex /\ base = 0 THEN condition ELSE c
      [] c.op = "AtLeastCondition" ->
            AtLeastCondition(c.count, [i \in DOMAIN c.conditions |->
                                          substitute(c.conditions[i], name, condition, base)])
      [] OTHER -> c

\* Condition.substitute(name, condition, base) of each class; base 0 is None.
substitute(c, name, condition, base) ==
    CASE c.op = "PlaceholderCondition" ->
            IF name.placeholder = c.name /\ c.base \in {0, base} THEN condition ELSE c
      [] c.op = "VertexCondition" ->
            IF name.vertex = c.vertex /\ base = 0 THEN condition ELSE c
      [] c.op = "AtLeastCondition" ->
            AtLeastCondition(c.count, [i \in DOMAIN c.conditions |->
                                          substitute(c.conditions[i], name, condition, base)])
      [] OTHER -> c

RECURSIVE set_base(_, _)
\* Condition.set_base(vertex) of each class.
set_base(c, vertex) ==
    CASE c.op = "PlaceholderCondition" ->
            IF c.base = 0 /\ vertex # 0 THEN PlaceholderCondition(c.name, vertex) ELSE c
      [] c.op = "AtLeastCondition" ->
            AtLeastCondition(c.count, [i \in DOMAIN c.conditions |->
                                          set_base(c.conditions[i], vertex)])
      [] OTHER -> c

\* The elements of a sequence that are not in a set, in their order.
Except(s, drop) ==
    LET F[i \in 0..Len(s)] == IF i = 0 THEN <<>>
                              ELSE IF s[i] \in drop THEN F[i - 1] ELSE Append(F[i - 1], s[i])
    IN F[Len(s)]

RECURSIVE simplify(_, _)
\* A simplify that follows equivalent_to one vertex far and stops there.
simplify_one_hop(K, c) ==
    CASE c.op = "VertexCondition" ->
            IF K[c.vertex].is_known
            THEN (IF K[c.vertex].known_access THEN TrueCondition ELSE FalseCondition)
            ELSE IF K[c.vertex].equivalent_to # 0
            THEN VertexCondition(K[c.vertex].equivalent_to)
            ELSE c
      [] c.op = "AtLeastCondition" ->
            LET s == [i \in DOMAIN c.conditions |-> simplify(K, c.conditions[i])]
                trues == Cardinality({i \in DOMAIN s : s[i] = TrueCondition})
                changed == \E i \in DOMAIN s : s[i] # c.conditions[i]
                              \/ s[i] \in {TrueCondition, FalseCondition}
                conditions == Except(s, {TrueCondition, FalseCondition})
            IN IF changed THEN AtLeast(c.count - trues, <<List(conditions)>>) ELSE c
      [] OTHER -> c

\* Condition.simplify() of each class; K gives the vertices.
simplify(K, c) ==
    CASE c.op = "VertexCondition" ->
            IF K[c.vertex].is_known
            THEN (IF K[c.vertex].known_access THEN TrueCondition ELSE FalseCondition)
            ELSE IF K[c.vertex].equivalent_to # 0
            THEN simplify(K, VertexCondition(K[c.vertex].equivalent_to))
            ELSE c
      [] c.op = "AtLeastCondition" ->
            LET s == [i \in DOMAIN c.conditions |-> simplify(K, c.conditions[i])]
                trues == Cardinality({i \in DOMAIN s : s[i] = TrueCondition})
                changed == \E i \in DOMAIN s : s[i] # c.conditions[i]
                              \/ s[i] \in {TrueCondition, FalseCondition}
                conditions == Except(s, {TrueCondition, FalseCondition})
            IN IF changed THEN AtLeast(c.count - trues, <<List(conditions)>>) ELSE c
      [] c.op = "EnumCondition" ->
            LET impossible == K[c.enum].impossible_values
                values_to_eliminate == c.values \cap {impossible[i] : i \in DOMAIN impossible}
                new_values == c.values \ values_to_eliminate
            IN IF K[c.enum].known
               THEN (IF K[c.enum].value \in c.values THEN TrueCondition ELSE FalseCondition)
               ELSE IF values_to_eliminate # {}
               THEN (IF new_values = {} THEN FalseCondition
                     ELSE EnumCondition(c.enum, new_values))
               ELSE c
      [] OTHER -> c

RECURSIVE condition_dependencies(_)
\* Condition.collect_dependencies() of each class.
condition_dependencies(c) ==
    CASE c.op = "VertexCondition" -> {c.vertex}
      [] c.op = "EnumCondition" -> {c.enum}
      [] c.op = "AtLeastCondition" ->
            UNION {condition_dependencies(c.conditions[i]) : i \in DOMAIN c.conditions}
      [] OTHER -> {}

\* The keys of vertex_counts with a count of at least required, in the order
\* in which the dictionary got them; found is what the conditions returned, one
\* after the other.
counted_vertices(found, required) ==
    LET first(i) == \A j \in 1..(i - 1) : found[j] # found[i]
        count(v) == Cardinality({i \in DOMAIN found : found[i] = v})
        F[i \in 0..Len(found)] ==
            IF i = 0 THEN <<>>
            ELSE IF first(i) /\ count(found[i]) >= required THEN Append(F[i - 1], found[i])
            ELSE F[i - 1]
    IN F[Len(found)]

RECURSIVE find_necessary_vertices(_)
RECURSIVE find_sufficient_vertices(_)
RECURSIVE concat_necessary(_, _)
RECURSIVE concat_sufficient(_, _)

concat_necessary(conditions, i) ==
    IF i > Len(conditions) THEN <<>>
    ELSE find_necessary_vertices(conditions[i]) \o concat_necessary(conditions, i + 1)

concat_sufficient(conditions, i) ==
    IF i > Len(conditions) THEN <<>>
    ELSE find_sufficient_vertices(conditions[i]) \o concat_sufficient(conditions, i + 1)

\* A find_necessary_vertices that asks of AtLeast what find_sufficient_vertices
\* asks: count children.
find_necessary_as_sufficient(c) ==
    CASE c.op = "VertexCondition" -> <<c.vertex>>
      [] c.op = "AtLeastCondition" ->
            counted_vertices(concat_necessary(c.conditions, 1), c.count)
      [] OTHER -> <<>>

\* Condition.find_necessary_vertices() of each class.
find_necessary_vertices(c) ==
    CASE c.op = "VertexCondition" -> <<c.vertex>>
      [] c.op = "AtLeastCondition" ->
            counted_vertices(concat_necessary(c.conditions, 1),
                             Len(c.conditions) - c.count + 1)
      [] OTHER -> <<>>

\* Condition.find_sufficient_vertices() of each class.
find_sufficient_vertices(c) ==
    CASE c.op = "VertexCondition" -> <<c.vertex>>
      [] c.op = "AtLeastCondition" ->
            counted_vertices(concat_sufficient(c.conditions, 1), c.count)
      [] OTHER -> <<>>

(***************************************************************************)
(* Game objects.  A world state W is a record: objs[o] holds the           *)
(* attributes of object o (kind is its class, 0 stands for None), err the  *)
(* exception raised, ret the value the last method returned.               *)
(***************************************************************************)
Range(s) == {s[i] : i \in DOMAIN s}

\* GameObjectType.__ctor__ and the class attributes of GameObjectType.
GameObject(kind, parent) ==
    [kind |-> kind, parent |-> parent, name |-> "", children |-> <<>>,
     dependents |-> <<>>, dependencies |-> {}]

\* VertexType.__ctor__ and the class attributes of VertexType, for vertex v.
Vertex(v, parent) ==
    [kind |-> "VertexType", parent |-> parent, name |-> "", children |-> <<>>,
     dependents |-> <<>>, dependencies |-> {},
     condition |-> PlaceholderCondition("exact", v),
     necessary_condition |-> PlaceholderCondition("necessary", v),
     sufficient_condition |-> PlaceholderCondition("sufficient", v),
     condition_fixed |-> FALSE, is_known |-> FALSE, known_access |-> FALSE,
     equivalent_to |-> 0, necessary_vertices |-> <<>>, sufficient_vertices |-> <<>>]

IsVertex(W, o) == W.objs[o].kind \in {"VertexType", "RequiredGoalsVertex", "OptionalGoalsVertex"}

RECURSIVE get_world(_, _)
\* GameObjectType.get_world
get_world(W, o) ==
    IF o = 0 THEN 0
    ELSE IF W.objs[o].kind = "WorldType" THEN o
    ELSE get_world(W, W.objs[o].parent)

\* A mark that moves an object that is queued to the end.
mark_to_end(W, o) ==
    LET world == get_world(W, o)
    IN IF world # 0 /\ W.objs[world].started_generation
       THEN [W EXCEPT !.objs[world].fast_deduction_objects = Append(Except(@, {o}), o)]
       ELSE W

\* GameObjectType.mark_fast_deduction
mark_fast_deduction(W, o) ==
    LET world == get_world(W, o)
    IN IF world # 0 /\ W.objs[world].started_generation
          /\ o \notin Range(W.objs[world].fast_deduction_objects)
       THEN [W EXCEPT !.objs[world].fast_deduction_objects = Append(@, o)]
       ELSE W

RECURSIVE mark_each(_, _, _)
mark_each(W, os, i) ==
    IF i > Len(os) THEN W ELSE mark_each(mark_fast_deduction(W, os[i]), os, i + 1)

\* collect_dependencies of each class
collect_dependencies(W, x) ==
    LET r == W.objs[x]
    IN IF ~IsVertex(W, x) \/ r.is_known THEN {}
       ELSE IF r.equivalent_to # 0 THEN {r.equivalent_to}
       ELSE condition_dependencies(r.condition)
               \cup condition_dependencies(r.sufficient_condition)
               \cup condition_dependencies(r.necessary_condition)

\* GameObjectType.updated
updated(W, x) ==
    LET W1 == mark_each(W, W.objs[x].dependents, 1)
        prev == W1.objs[x].dependencies
        new == collect_dependencies(W1, x)
    IN [W1 EXCEPT !.objs = [o \in DOMAIN @ |->
          LET r == IF o = x THEN [@[o] EXCEPT !.dependencies = new] ELSE @[o]
          IN IF o \in prev \ new THEN [r EXCEPT !.dependents = Except(@, {x})]
             ELSE IF o \in new \ prev THEN [r EXCEPT !.dependents = Append(@, x)]
             ELSE r]]

\* VertexType._set_known_access
set_known_access(W, v, value) ==
    IF raised(W) THEN W
    ELSE IF W.objs[v].is_known
    THEN (IF W.objs[v].known_access = value THEN W ELSE [W EXCEPT !.err = "AssertionError"])
    ELSE updated([W EXCEPT !.objs[v].known_access = value,
                           !.objs[v].is_known = TRUE,
                           !.objs[v].condition = IF value THEN TrueCondition ELSE FalseCondition,
                           !.objs[v].necessary_condition =
                               IF value THEN TrueCondition ELSE FalseCondition,
                           !.objs[v].sufficient_condition =
                               IF value THEN TrueCondition ELSE FalseCondition], v)

RECURSIVE set_known_access_each(_, _, _, _)
set_known_access_each(W, vs, i, value) ==
    IF i > Len(vs) THEN W
    ELSE set_known_access_each(set_known_access(W, vs[i], value), vs, i + 1, value)

RECURSIVE set_equivalent_to_walk(_, _, _, _)
\* VertexType._set_equivalent_to: the loop, at eq; it does not end on a chain of
\* equivalent_to that closes without passing self.
set_equivalent_to_walk(W, self, eq, fuel) ==
    IF fuel = 0 THEN [W EXCEPT !.err = "hang"]
    ELSE IF eq = self
    THEN set_known_access([W EXCEPT !.objs[self].equivalent_to = 0], self, FALSE)
    ELSE IF W.objs[eq].is_known
    THEN set_known_access([W EXCEPT !.objs[self].equivalent_to = 0], self,
                          W.objs[eq].known_access)
    ELSE IF W.objs[eq].equivalent_to = 0
    THEN updated([W EXCEPT !.objs[self].equivalent_to = eq], self)
    ELSE set_equivalent_to_walk(W, self, W.objs[eq].equivalent_to, fuel - 1)

\* A _set_equivalent_to that does not follow the chain.
set_equivalent_to_direct(W, self, vertex) ==
    IF raised(W) THEN W
    ELSE IF vertex = self
    THEN set_known_access([W EXCEPT !.objs[self].equivalent_to = 0], self, FALSE)
    ELSE IF W.objs[vertex].is_known
    THEN set_known_access([W EXCEPT !.objs[self].equivalent_to = 0], self,
                          W.objs[vertex].known_access)
    ELSE updated([W EXCEPT !.objs[self].equivalent_to = vertex], self)

\* A _set_equivalent_to that takes a vertex equivalent to itself as accessible.
set_equivalent_to_accessible(W, self, vertex) ==
    IF raised(W) THEN W
    ELSE IF vertex = self
    THEN set_known_access([W EXCEPT !.objs[self].equivalent_to = 0], self, TRUE)
    ELSE set_equivalent_to_walk(W, self, vertex, Len(W.objs) + 1)

\* VertexType._set_equivalent_to
set_equivalent_to(W, self, vertex) ==
    IF raised(W) THEN W
    ELSE set_equivalent_to_walk(W, self, vertex, Len(W.objs) + 1)

Return(W, value) == IF raised(W) THEN W ELSE [W EXCEPT !.ret = value]

\* VertexType._simplify
vertex_simplify(W, self) ==
    LET r == W.objs[self]
        simplified_condition == simplify(W.objs, r.condition)
        W1 == [W EXCEPT !.objs[self].condition = simplified_condition]
        necessary_condition == simplify(W1.objs, r.necessary_condition)
        W2 == [W1 EXCEPT !.objs[self].necessary_condition = necessary_condition]
        sufficient_condition == simplify(W2.objs, r.sufficient_condition)
        W3 == [W2 EXCEPT !.objs[self].sufficient_condition = sufficient_condition]
    IN IF simplified_condition \in {TrueCondition, FalseCondition}
       THEN Return(set_known_access(W, self, simplified_condition = TrueCondition), TRUE)
       ELSE IF simplified_condition.op = "VertexCondition"
       THEN Return(set_equivalent_to(W1, self, simplified_condition.vertex), TRUE)
       ELSE IF necessary_condition = FalseCondition
       THEN Return(set_known_access(W1, self, FALSE), TRUE)
       ELSE IF sufficient_condition = TrueCondition
       THEN Return(set_known_access(W2, self, TRUE), TRUE)
       ELSE Return(W3, simplified_condition # r.condition
                          \/ necessary_condition # r.necessary_condition
                          \/ sufficient_condition # r.sufficient_condition)

\* VertexType._maybe_simplify
maybe_simplify(W, self) ==
    LET r == W.objs[self]
        eq == r.equivalent_to
    IN IF raised(W) THEN W
       ELSE IF r.is_known THEN Return(W, FALSE)
       ELSE IF eq # 0
       THEN (IF W.objs[eq].is_known
             THEN Return(set_known_access(W, self, W.objs[eq].known_access), TRUE)
             ELSE IF W.objs[eq].equivalent_to # 0
             THEN Return(set_equivalent_to(W, self, eq), TRUE)
             ELSE Return(W, FALSE))
       ELSE vertex_simplify(W, self)

\* The new keys a dictionary gets from a list, behind the ones it has.
with_new_keys(keys, found) == keys \o Except(counted_vertices(found, 1), Range(keys))

necessary_of(W, v) ==
    find_necessary_vertices(And(<<W.objs[v].condition, W.objs[v].necessary_condition>>))

sufficient_of(W, v) ==
    find_sufficient_vertices(Or(<<W.objs[v].condition, W.objs[v].sufficient_condition>>))

RECURSIVE necessity_search(_, _, _, _)
RECURSIVE necessity_visit(_, _, _, _, _)

\* VertexType._check_for_necessity_loops: the while loop.
necessity_search(W, visited, vertex_stack, necessary_vertices_stack) ==
    IF raised(W) THEN W
    ELSE IF vertex_stack = <<>> THEN Return(W, FALSE)
    ELSE
    LET necessary_vertices == Last(necessary_vertices_stack)
        necessary_vertex == Last(necessary_vertices)
        rest == Append(Front(necessary_vertices_stack), Front(necessary_vertices))
    IN IF necessary_vertices = <<>>
       THEN necessity_search(W, visited, Front(vertex_stack), Front(necessary_vertices_stack))
       ELSE IF necessary_vertex \in visited
       THEN (IF necessary_vertex \in Range(vertex_stack)
             THEN Return(set_known_access_each(W, vertex_stack, 1, FALSE), TRUE)
             ELSE necessity_search(W, visited, vertex_stack, rest))
       ELSE necessity_visit(maybe_simplify(W, necessary_vertex), visited, vertex_stack, rest,
                            necessary_vertex)

\* The rest of a turn of the loop for a vertex not visited before, after its
\* _maybe_simplify() gave W1.
necessity_visit(W1, visited, vertex_stack, rest, necessary_vertex) ==
    IF raised(W1) THEN W1
    ELSE IF W1.objs[necessary_vertex].is_known
    THEN (IF W1.objs[necessary_vertex].known_access
          THEN necessity_search(
                  [W1 EXCEPT !.objs[Last(vertex_stack)].necessary_vertices =
                                 Except(@, {necessary_vertex})],
                  visited, vertex_stack, rest)
          ELSE Return(set_known_access_each(W1, vertex_stack, 1, FALSE), TRUE))
    ELSE necessity_search(
            [W1 EXCEPT !.objs[necessary_vertex].necessary_vertices =
                           with_new_keys(@, necessary_of(W1, necessary_vertex))],
            visited \cup {necessary_vertex},
            Append(vertex_stack, necessary_vertex),
            Append(rest, with_new_keys(W1.objs[necessary_vertex].necessary_vertices,
                                       necessary_of(W1, necessary_vertex))))

\* VertexType._check_for_necessity_loops
check_for_necessity_loops(W, self) ==
    LET old == W.objs[self].necessary_vertices
        new == with_new_keys(old, necessary_of(W, self))
    IN IF raised(W) THEN W
       ELSE IF new = old THEN Return(W, FALSE)
       ELSE necessity_search([W EXCEPT !.objs[self].necessary_vertices = new],
                             {self}, <<self>>, <<new>>)


RECURSIVE resolve(_, _, _)
\* while vertex.equivalent_to is not None: vertex = vertex.equivalent_to
resolve(W, vertex, fuel) ==
    IF fuel = 0 \/ W.objs[vertex].equivalent_to = 0 THEN vertex
    ELSE resolve(W, W.objs[vertex].equivalent_to, fuel - 1)

RECURSIVE get_condition(_, _, _)
\* VertexType._get_condition
get_condition(W, vertex, fuel) ==
    IF fuel = 0 \/ W.objs[vertex].equivalent_to = 0 THEN W.objs[vertex].condition
    ELSE get_condition(W, W.objs[vertex].equivalent_to, fuel - 1)

\* The elements of a set in the order in which order lists them: the order
\* in which iterating a Python set of objects yields them is not defined.
InOrder(set, order) == Except(order, Range(order) \ set)

RECURSIVE substitute_each(_, _, _)
\* condition.substitute(vertex, FalseCondition) for each vertex of a list
substitute_each(c, vs, i) ==
    IF i > Len(vs) THEN c
    ELSE substitute_each(substitute(c, VertexName(vs[i]), FalseCondition, 0), vs, i + 1)

RECURSIVE set_equivalent_to_each(_, _, _, _)
set_equivalent_to_each(W, vs, i, base_vertex) ==
    IF i > Len(vs) THEN W
    ELSE IF vs[i] = base_vertex THEN set_equivalent_to_each(W, vs, i + 1, base_vertex)
    ELSE set_equivalent_to_each(set_equivalent_to(W, vs[i], base_vertex), vs, i + 1, base_vertex)

\* VertexType._combine_equivalent_vertices; order is the order in which the
\* set condition_vertices is iterated.
combine_equivalent_vertices(W, vertices, order) ==
    LET n == Len(W.objs)
        condition_vertices == {resolve(W, vertices[i], n) : i \in DOMAIN vertices}
        vertex == vertices[1]
        base_vertex == resolve(W, Last(vertices), n)
        cvs == InOrder(condition_vertices, order)
        merged(field) ==
            simplify(W.objs, substitute_each(
                AtLeast(1, <<List([i \in DOMAIN cvs |-> set_base(W.objs[cvs[i]][field], cvs[i])])>>),
                cvs, 1))
        degenerate(c) == simplify(W.objs, substitute(c, VertexName(vertex), FalseCondition, 0))
    IN IF Cardinality(condition_vertices) = 1
       THEN [W EXCEPT !.objs[vertex].necessary_condition = degenerate(@),
                      !.objs[vertex].condition = degenerate(get_condition(W, vertex, n)),
                      !.objs[vertex].sufficient_condition = degenerate(@)]
       ELSE set_equivalent_to_each(
               [W EXCEPT !.objs[base_vertex].necessary_condition = merged("necessary_condition"),
                         !.objs[base_vertex].condition = merged("condition"),
                         !.objs[base_vertex].sufficient_condition = merged("sufficient_condition")],
               vertices, 1, base_vertex)

\* vertex_stack[vertex_stack.index(vertex):]
stack_from(vertex_stack, vertex) ==
    LET first == CHOOSE i \in DOMAIN vertex_stack :
                    vertex_stack[i] = vertex /\ \A j \in 1..(i - 1) : vertex_stack[j] # vertex
    IN SubSeq(vertex_stack, first, Len(vertex_stack))

RECURSIVE sufficiency_search(_, _, _, _, _)
RECURSIVE sufficiency_visit(_, _, _, _, _, _)

\* VertexType._check_for_sufficiency_loops: the while loop.
sufficiency_search(W, visited, vertex_stack, sufficient_vertices_stack, order) ==
    IF raised(W) THEN W
    ELSE IF vertex_stack = <<>> THEN Return(W, FALSE)
    ELSE
    LET sufficient_vertices == Last(sufficient_vertices_stack)
        sufficient_vertex == Last(sufficient_vertices)
        rest == Append(Front(sufficient_vertices_stack), Front(sufficient_vertices))
    IN IF sufficient_vertices = <<>>
       THEN sufficiency_search(W, visited, Front(vertex_stack),
                               Front(sufficient_vertices_stack), order)
       ELSE IF sufficient_vertex \in visited
       THEN (IF sufficient_vertex \in Range(vertex_stack)
             THEN Return(combine_equivalent_vertices(
                             W, stack_from(vertex_stack, sufficient_vertex), order), TRUE)
             ELSE sufficiency_search(W, visited, vertex_stack, rest, order))
       ELSE sufficiency_visit(maybe_simplify(W, sufficient_vertex), visited, vertex_stack,
                              rest, sufficient_vertex, order)

\* The rest of a turn of the loop for a vertex not visited before, after its
\* _maybe_simplify() gave W1.
sufficiency_visit(W1, visited, vertex_stack, rest, sufficient_vertex, order) ==
    IF raised(W1) THEN W1
    ELSE IF W1.objs[sufficient_vertex].is_known
    THEN (IF W1.objs[sufficient_vertex].known_access
          THEN Return(set_known_access_each(W1, vertex_stack, 1, TRUE), TRUE)
          ELSE sufficiency_search(
                  [W1 EXCEPT !.objs[Last(vertex_stack)].sufficient_vertices =
                                 Except(@, {sufficient_vertex})],
                  visited, vertex_stack, rest, order))
    ELSE sufficiency_search(
            [W1 EXCEPT !.objs[sufficient_vertex].sufficient_vertices =
                           with_new_keys(@, sufficient_of(W1, sufficient_vertex))],
            visited \cup {sufficient_vertex},
            Append(vertex_stack, sufficient_vertex),
            Append(rest, with_new_keys(W1.objs[sufficient_vertex].sufficient_vertices,
                                       sufficient_of(W1, sufficient_vertex))),
            order)

\* VertexType._check_for_sufficiency_loops
check_for_sufficiency_loops(W, self, order) ==
    LET old == W.objs[self].sufficient_vertices
        new == with_new_keys(old, sufficient_of(W, self))
    IN IF raised(W) THEN W
       ELSE IF new = old THEN Return(W, FALSE)
       ELSE sufficiency_search([W EXCEPT !.objs[self].sufficient_vertices = new],
                               {self}, <<self>>, <<new>>, order)

RECURSIVE substitutes(_, _, _)
\* Whether c.substitute(name, condition, base) returns another object than c.
substitutes(c, name, base) ==
    CASE c.op = "PlaceholderCondition" -> name.placeholder = c.name /\ c.base \in {0, base}
      [] c.op = "VertexCondition" -> name.vertex = c.vertex /\ base = 0
      [] c.op = "AtLeastCondition" ->
            \E i \in DOMAIN c.conditions : substitutes(c.conditions[i], name, base)
      [] OTHER -> FALSE

\* VertexType.substitute
vertex_substitute(W, self, name, condition) ==
    LET c == set_base(condition, self)
        base == resolve(W, self, Len(W.objs))
        r == W.objs[base]
        n == PlaceholderName(name)
    IN IF raised(W) THEN W
       ELSE IF substitutes(r.necessary_condition, n, self) \/ substitutes(r.condition, n, self)
               \/ substitutes(r.sufficient_condition, n, self)
       THEN Return(updated(
               [W EXCEPT !.objs[base].necessary_condition = substitute(@, n, c, self),
                         !.objs[base].condition = substitute(@, n, c, self),
                         !.objs[base].sufficient_condition = substitute(@, n, c, self)],
               base), TRUE)
       ELSE Return(W, FALSE)

\* An assignment that replaces the condition whether it is fixed or not.
set_condition_always(W, self, condition) ==
    IF raised(W) THEN W
    ELSE updated([W EXCEPT !.objs[self].condition = set_base(condition, self)], self)

\* VertexType._set_condition
set_condition(W, self, condition) ==
    IF raised(W) THEN W
    ELSE IF ~W.objs[self].condition_fixed
    THEN updated([W EXCEPT !.objs[self].condition = set_base(condition, self)], self)
    ELSE IF W.objs[self].condition # PlaceholderCondition("exact", self)
    THEN [W EXCEPT !.err = "Exception"]
    ELSE vertex_substitute(W, self, "exact", condition)

RECURSIVE fast_deduce_loop(_, _, _, _, _)
RECURSIVE fast_deduce_turn(_, _, _, _, _)

\* self._check_for_necessity_loops() or self._check_for_sufficiency_loops(),
\* after the first gave N
check_for_loops(N, self, order) ==
    IF raised(N) \/ N.ret THEN N ELSE check_for_sufficiency_loops(N, self, order)

\* VertexType.fast_deduce: the while loop; a loop that does not end is "hang".
fast_deduce_loop(W, self, changed, order, fuel) ==
    IF raised(W) THEN W
    ELSE IF W.objs[self].equivalent_to # 0 \/ W.objs[self].is_known THEN Return(W, changed)
    ELSE IF fuel = 0 THEN [W EXCEPT !.err = "hang"]
    ELSE fast_deduce_turn(check_for_loops(check_for_necessity_loops(W, self), self, order),
                          self, changed, order, fuel)

\* The rest of a turn of the loop, after the checks for loops gave C.
fast_deduce_turn(C, self, changed, order, fuel) ==
    IF raised(C) THEN C
    ELSE IF C.ret THEN fast_deduce_loop(maybe_simplify(C, self), self, TRUE, order, fuel - 1)
    ELSE Return(C, changed)

\* VertexType.fast_deduce: what follows the while loop, which gave W2.
fast_deduce_end(W2, self) ==
    IF raised(W2) THEN W2
    ELSE IF W2.ret THEN updated(W2, self) ELSE W2

\* VertexType.fast_deduce: what follows the first _maybe_simplify(), which
\* gave W1.
fast_deduce_start(W1, self, order, fuel) ==
    IF raised(W1) THEN W1
    ELSE fast_deduce_end(fast_deduce_loop(W1, self, W1.ret, order, fuel), self)

\* VertexType.fast_deduce
vertex_fast_deduce(W, self, order) ==
    fast_deduce_start(maybe_simplify([W EXCEPT !.objs[self].condition_fixed = TRUE], self),
                      self, order, 2 * Len(W.objs))

(***************************************************************************)
(* Choices and ports.  A dictionary keyed by objects is the sequence of    *)
(* its <<key, value>> items, in the order BranchingOrderedDictionary       *)
(* keeps them.                                                             *)
(***************************************************************************)
NoLimit == -1    \* maximum_connections = None

dict_keys(d) == [i \in DOMAIN d |-> d[i][1]]
dict_has(d, k) == \E i \in DOMAIN d : d[i][1] = k
dict_get(d, k, default) ==
    IF dict_has(d, k) THEN d[CHOOSE i \in DOMAIN d : d[i][1] = k][2] ELSE default
dict_set(d, k, v) ==
    IF dict_has(d, k) THEN [i \in DOMAIN d |-> IF d[i][1] = k THEN <<k, v>> ELSE d[i]]
    ELSE Append(d, <<k, v>>)
dict_del(d, k) ==
    LET F[i \in 0..Len(d)] == IF i = 0 THEN <<>>
                              ELSE IF d[i][1] = k THEN F[i - 1] ELSE Append(F[i - 1], d[i])
    IN F[Len(d)]
dict_sum(d) ==
    LET F[i \in 0..Len(d)] == IF i = 0 THEN 0 ELSE F[i - 1] + d[i][2]
    IN F[Len(d)]

\* PortType.__ctor__ and the class attributes of ChoiceType and PortType.
Port(kind, parent, maximum, maximum_unique, minimum, minimum_unique, default) ==
    [kind |-> kind, parent |-> parent, name |-> "", children |-> <<>>,
     dependents |-> <<>>, dependencies |-> {},
     known |-> FALSE, strategy |-> "", default |-> default,
     chosen_connections |-> <<>>,
     maximum_connections |-> maximum, maximum_unique_connections |-> maximum_unique,
     minimum_connections |-> minimum, minimum_unique_connections |-> minimum_unique,
     impossible_connections |-> <<>>, commit_impossible |-> FALSE]

\* The classes of a port from its own up to ChoiceType: t = t.__bases__[0].
bases(kind) ==
    IF kind = "MovementPortType" THEN <<"MovementPortType", "PortType">>
    ELSE IF kind = "PortType" THEN <<"PortType">>
    ELSE <<>>

\* PortType.compatible_types, MovementPortType.compatible_types
compatible_types(kind) ==
    IF kind = "MovementPortType" THEN <<"MovementPortType">> ELSE <<"PortType">>

isinstance(W, o, types) == Range(types) \cap Range(bases(W.objs[o].kind)) # {}

IsPort(W, o) == bases(W.objs[o].kind) # <<>>
IsChoice(W, o) ==
    IsPort(W, o) \/ W.objs[o].kind \in {"ChoiceType", "EnumChoiceType", "IntegerChoiceType"}

\* PortType.test_connect: the exception it raises, "" for none.
test_connect_one(W, self, other, count) ==
    LET r == W.objs[self]
        d == r.chosen_connections
    IN IF count < 0 THEN "ValueError"
       ELSE IF r.known THEN "ValueError"
       ELSE IF ~isinstance(W, other, compatible_types(r.kind)) THEN "ValueError"
       ELSE IF r.maximum_unique_connections # NoLimit
               /\ Len(d) - (IF dict_has(d, other) THEN 1 ELSE 0) + (IF count # 0 THEN 1 ELSE 0)
                     > r.maximum_unique_connections
       THEN "ValueError"
       ELSE IF r.maximum_connections # NoLimit
               /\ dict_sum(d) - dict_get(d, other, 0) + count > r.maximum_connections
       THEN "ValueError"
       ELSE IF other \in Range(r.impossible_connections) THEN "ValueError"
       ELSE ""

test_connect(W, self, other, count, test_other) ==
    LET e == test_connect_one(W, self, other, count)
    IN IF e # "" \/ ~test_other THEN e ELSE test_connect_one(W, other, self, count)

\* PortType.test_multi_connect
test_multi_connect(W, self, other, count) ==
    test_connect(W, self, other, dict_get(W.objs[self].chosen_connections, other, 0) + count, TRUE)

\* del port.chosen_connections[key]
del_connection(W, port, key) ==
    IF raised(W) THEN W
    ELSE IF ~dict_has(W.objs[port].chosen_connections, key)
    THEN [W EXCEPT !.err = "AttributeError"]
    ELSE [W EXCEPT !.objs[port].chosen_connections = dict_del(@, key)]

\* port.chosen_connections[key] = count
set_connection(W, port, key, count) ==
    [W EXCEPT !.objs[port].chosen_connections = dict_set(@, key, count)]

\* A connect that does not test the other port's limits.
connect_untested(W, self, other, count) ==
    LET e == test_connect(W, self, other, count, FALSE)
        W1 == mark_fast_deduction(W, self)
        W2 == IF count = 0
              THEN del_connection(del_connection(W1, self, other), other, self)
              ELSE set_connection(set_connection(W1, self, other, count), other, self, count)
    IN IF raised(W) THEN W
       ELSE IF e # "" THEN [W EXCEPT !.err = e]
       ELSE IF raised(W2) THEN W2
       ELSE mark_fast_deduction(mark_fast_deduction(W2, self), other)

\* PortType.connect
connect(W, self, other, count) ==
    LET e == test_connect(W, self, other, count, TRUE)
        W1 == mark_fast_deduction(W, self)
        W2 == IF count = 0
              THEN del_connection(del_connection(W1, self, other), other, self)
              ELSE set_connection(set_connection(W1, self, other, count), other, self, count)
    IN IF raised(W) THEN W
       ELSE IF e # "" THEN [W EXCEPT !.err = e]
       ELSE IF raised(W2) THEN W2
       ELSE mark_fast_deduction(mark_fast_deduction(W2, self), other)

\* PortType.multi_connect
multi_connect(W, self, other, count) ==
    connect(W, self, other, dict_get(W.objs[self].chosen_connections, other, 0) + count)

\* PortType.disconnect; count NoLimit stands for count=None.
disconnect(W, self, other, count) ==
    LET new_count == dict_get(W.objs[self].chosen_connections, other, 0) - count
    IN IF count = NoLimit THEN connect(W, self, other, 0)
       ELSE IF new_count < 0 THEN [W EXCEPT !.err = "ValueError"]
       ELSE connect(W, self, other, new_count)

RECURSIVE disconnect_all(_, _)
\* PortType.disconnect_all
disconnect_all(W, self) ==
    IF raised(W) \/ W.objs[self].chosen_connections = <<>> THEN W
    ELSE disconnect_all(connect(W, self, W.objs[self].chosen_connections[1][1], 0), self)

\* PortType.can_commit
can_commit(W, self) ==
    LET r == W.objs[self]
    IN ~r.commit_impossible
       /\ Len(r.chosen_connections) >= r.minimum_unique_connections
       /\ dict_sum(r.chosen_connections) >= r.minimum_connections

\* obj.children.values(): children is the sequence of <<name, child>> items
child_values(W, o) == [i \in DOMAIN W.objs[o].children |-> W.objs[o].children[i][2]]

\* The objects below a world in the order in which a stack that pops its last
\* element visits them: object_queue.pop() and the children appended.
RECURSIVE walk(_, _, _)
walk(W, object_queue, visited) ==
    IF object_queue = <<>> THEN visited
    ELSE walk(W, Front(object_queue) \o child_values(W, Last(object_queue)),
              Append(visited, Last(object_queue)))

descendants(W, world) == walk(W, <<world>>, <<>>)

\* world._PortType_open_cache before _build_open_cache
NoCache == [built |-> FALSE, by_type |-> <<>>, by_compatible_type |-> <<>>]

\* by_type[t][port] = None, with by_type[t] created when t is not in by_type
cache_add(cache, t, port) == dict_set(cache, t, dict_set(dict_get(cache, t, <<>>), port, 0))

RECURSIVE add_to_open_cache(_, _, _, _)
\* PortType._add_to_open_cache for the i-th of the ports
add_to_open_cache(W, ports, i, cache) ==
    LET port == ports[i]
        kind == W.objs[port].kind
        F[j \in 0..Len(bases(kind))] ==
            IF j = 0 THEN cache.by_type ELSE cache_add(F[j - 1], bases(kind)[j], port)
        G[j \in 0..Len(compatible_types(kind))] ==
            IF j = 0 THEN cache.by_compatible_type
            ELSE cache_add(G[j - 1], compatible_types(kind)[j], port)
    IN IF i > Len(ports) THEN cache
       ELSE add_to_open_cache(W, ports, i + 1,
               [cache EXCEPT !.by_type = F[Len(bases(kind))],
                             !.by_compatible_type = G[Len(compatible_types(kind))]])

\* PortType._build_open_cache
build_open_cache(W, self) ==
    LET world == get_world(W, self)
        all == descendants(W, world)
        open == [i \in DOMAIN all |-> IF IsPort(W, all[i]) /\ ~W.objs[all[i]].known
                                      THEN all[i] ELSE 0]
    IN IF world = 0 \/ W.objs[world].open_cache.built THEN W
       ELSE [W EXCEPT !.objs[world].open_cache =
                add_to_open_cache(W, Except(open, {0}), 1, [NoCache EXCEPT !.built = TRUE])]

\* del cache[t][self], and the marking of the ports of others[t] when that
\* leaves cache[t] empty; which names the cache, "by_type" or
\* "by_compatible_type".
cache_remove(W, world, which, t, self) ==
    LET cache == W.objs[world].open_cache
        mine == IF which = "by_type" THEN cache.by_type ELSE cache.by_compatible_type
        others == IF which = "by_type" THEN cache.by_compatible_type ELSE cache.by_type
        left == dict_del(dict_get(mine, t, <<>>), self)
        W1 == IF which = "by_type"
              THEN [W EXCEPT !.objs[world].open_cache.by_type = dict_set(@, t, left)]
              ELSE [W EXCEPT !.objs[world].open_cache.by_compatible_type = dict_set(@, t, left)]
    IN IF raised(W) THEN W
       ELSE IF ~dict_has(mine, t) THEN [W EXCEPT !.err = "KeyError"]
       ELSE IF ~dict_has(dict_get(mine, t, <<>>), self) THEN [W EXCEPT !.err = "AttributeError"]
       ELSE IF left = <<>> THEN mark_each(W1, dict_keys(dict_get(others, t, <<>>)), 1)
       ELSE W1

RECURSIVE cache_remove_each(_, _, _, _, _, _)
cache_remove_each(W, world, which, types, i, self) ==
    IF i > Len(types) THEN W
    ELSE cache_remove_each(cache_remove(W, world, which, types[i], self),
                           world, which, types, i + 1, self)

\* An on_set that empties a class without queueing the ports of the other
\* side.
port_on_set_unmarked(W, self) ==
    LET world == get_world(W, self)
        marked == cache_remove_each(
                     cache_remove_each(W, world, "by_type", bases(W.objs[self].kind), 1, self),
                     world, "by_compatible_type", compatible_types(W.objs[self].kind), 1, self)
    IN IF world = 0 \/ ~W.objs[world].open_cache.built THEN W
       ELSE IF raised(marked) THEN marked
       ELSE [marked EXCEPT !.objs[world].fast_deduction_objects =
                               W.objs[world].fast_deduction_objects]

\* PortType.on_set
port_on_set(W, self) ==
    LET world == get_world(W, self)
        kind == W.objs[self].kind
    IN IF world = 0 \/ ~W.objs[world].open_cache.built THEN W
       ELSE cache_remove_each(
               cache_remove_each(W, world, "by_type", bases(kind), 1, self),
               world, "by_compatible_type", compatible_types(kind), 1, self)

\* type(self).__name__ without a final 'Type'
type_name(kind) ==
    IF Len(kind) >= 4 /\ SubSeq(kind, Len(kind) - 3, Len(kind)) = "Type"
    THEN SubSeq(kind, 1, Len(kind) - 4)
    ELSE kind

\* GameObjectType._get_name; "" is None
get_name(W, o) == IF W.objs[o].name = "" THEN type_name(W.objs[o].kind) ELSE W.objs[o].name

\* GameObjectType.remove_child
remove_child(W, self, child) ==
    IF raised(W) THEN W
    ELSE IF W.objs[child].parent # self THEN [W EXCEPT !.err = "ValueError"]
    ELSE IF ~dict_has(W.objs[self].children, get_name(W, child))
    THEN [W EXCEPT !.err = "KeyError"]
    ELSE [W EXCEPT !.objs[self].children = dict_del(@, get_name(W, child)),
                   !.objs[child].name = get_name(W, child),
                   !.objs[child].parent = 0]

\* An add_child that numbers a taken name by the count of the children.
add_child_counted(W1, self, child, name) ==
    LET children == W1.objs[self].children
        requested == IF name = "" THEN get_name(W1, child) ELSE name
        final == IF dict_has(children, requested)
                 THEN requested \o ToString(Len(children) + 1) ELSE requested
    IN IF raised(W1) THEN W1
       ELSE [W1 EXCEPT !.objs[child].name = final,
                       !.objs[self].children = dict_set(@, final, child),
                       !.objs[child].parent = self]

\* GameObjectType.add_child: what follows the removal from another parent,
\* which gave W1; name "" is None.
add_child_named(W1, self, child, name) ==
    LET children == W1.objs[self].children
        requested == IF name = "" THEN get_name(W1, child) ELSE name
        i == CHOOSE i \in 2..(Len(children) + 2) :
                /\ ~dict_has(children, requested \o ToString(i))
                /\ \A j \in 2..(i - 1) : dict_has(children, requested \o ToString(j))
        final == IF dict_has(children, requested) THEN requested \o ToString(i) ELSE requested
    IN IF raised(W1) THEN W1
       ELSE [W1 EXCEPT !.objs[child].name = final,
                       !.objs[self].children = dict_set(@, final, child),
                       !.objs[child].parent = self]

\* GameObjectType.add_child
add_child(W, self, child, name) ==
    IF raised(W) THEN W
    ELSE IF W.objs[child].parent = self THEN W
    ELSE add_child_named(IF W.objs[child].parent # 0
                         THEN remove_child(W, W.objs[child].parent, child) ELSE W,
                         self, child, name)

\* self.<name> = <a new object>: GameObjectType.__setattr_hook__ adds the
\* object, which has no parent, as a child under the name of the attribute.
add_new(W, self, name, object) ==
    add_child([W EXCEPT !.objs = Append(@, [object EXCEPT !.parent = 0])],
              self, Len(W.objs) + 1, name)

(***************************************************************************)
(* GridMapType: the attributes (x, y) of a map are its cells, kept in      *)
(* attrs under <<x, y>>; Width and Height are its first two children.      *)
(***************************************************************************)
\* IntegerChoice(minimum=..., default=...)
IntegerChoice(minimum, default) ==
    [kind |-> "IntegerChoiceType", parent |-> 0, name |-> "", children |-> <<>>,
     dependents |-> <<>>, dependencies |-> {},
     known |-> FALSE, value |-> 0, strategy |-> "", default |-> default, minimum |-> minimum]

\* GridMapType.__ctor__ on a world W without objects: the map is object 1.
GridMap ==
    LET map == [kind |-> "GridMapType", parent |-> 0, name |-> "", children |-> <<>>,
                dependents |-> <<>>, dependencies |-> {}, attrs |-> <<>>]
        W == [objs |-> <<map>>, err |-> "", ret |-> FALSE]
    IN add_new(add_new(W, 1, "Width", IntegerChoice(1, 10)), 1, "Height", IntegerChoice(1, 10))

\* str((x, y))
str(x, y) == "(" \o ToString(x) \o ", " \o ToString(y) \o ")"

\* self.<name> = MovementPortType(): MovementPortType.__ctor__ gives the port
\* p its vertices can_enter and can_exit.
movement_port(W, self, name, p) ==
    add_new(add_new(add_new(W, self, name,
                            Port("MovementPortType", 0, 1, 1, 1, 1, "RandomPortStrategy")),
                    p, "can_enter", [Vertex(p + 1, 0) EXCEPT !.condition = TrueCondition]),
            p, "can_exit", [Vertex(p + 2, 0) EXCEPT !.condition = TrueCondition])

\* GridMapType.new_cell: the cell is object c, its ports c + 1, c + 4, ...
new_cell(W, x, y, c) ==
    movement_port(movement_port(movement_port(movement_port(
        [W EXCEPT !.objs = Append(@, GameObject("PositionType", 0) @@ [x |-> x, y |-> y])],
        c, "North", c + 1), c, "South", c + 4), c, "East", c + 7), c, "West", c + 10)

\* self.hasattr((x, y))
grid_hasattr(W, self, x, y) == dict_has(W.objs[self].attrs, <<x, y>>)

\* self.setattr((x, y), value): GameObjectType.__setattr_hook__ makes a value
\* without a parent a child named after the attribute.
grid_setattr(W, self, x, y, value) ==
    LET W1 == IF W.objs[value].parent = 0 THEN add_child(W, self, value, str(x, y)) ELSE W
    IN IF raised(W1) THEN W1
       ELSE [W1 EXCEPT !.objs[self].attrs = dict_set(@, <<x, y>>, value)]

\* self.delattr((x, y)): GameObjectType.__setattr_hook__ reads the attribute
\* and removes the child that has its name.
grid_delattr(W, self, x, y) ==
    LET value == dict_get(W.objs[self].attrs, <<x, y>>, 0)
        W1 == IF W.objs[value].parent = self /\ str(x, y) = get_name(W, value)
              THEN remove_child(W, self, value) ELSE W
    IN IF ~grid_hasattr(W, self, x, y) THEN [W EXCEPT !.err = "AttributeError"]
       ELSE IF raised(W1) THEN W1
       ELSE [W1 EXCEPT !.objs[self].attrs = dict_del(@, <<x, y>>)]

\* A body of the inner loop that keeps the cells outside the rectangle.
grid_cell_keep(W, self, x, y, width, height) ==
    IF x < width /\ y < height /\ ~grid_hasattr(W, self, x, y)
    THEN grid_setattr(new_cell(W, x, y, Len(W.objs) + 1), self, x, y, Len(W.objs) + 1)
    ELSE W

\* GridMapType.on_choice: the body of the inner loop
grid_cell(W, self, x, y, width, height) ==
    IF x < width /\ y < height
    THEN (IF ~grid_hasattr(W, self, x, y)
          THEN grid_setattr(new_cell(W, x, y, Len(W.objs) + 1), self, x, y, Len(W.objs) + 1)
          ELSE W)
    ELSE grid_delattr(W, self, x, y)

RECURSIVE grid_column(_, _, _, _, _, _)
\* ... the inner loop from y on
grid_column(W, self, x, y, width, height) ==
    IF raised(W) THEN W
    ELSE IF y < height \/ grid_hasattr(W, self, x, y)
    THEN grid_column(grid_cell(W, self, x, y, width, height), self, x, y + 1, width, height)
    ELSE W

RECURSIVE grid_columns(_, _, _, _, _)
\* ... the outer loop from x on
grid_columns(W, self, x, width, height) ==
    IF raised(W) THEN W
    ELSE IF x < width \/ grid_hasattr(W, self, x, 0)
    THEN grid_columns(grid_column(W, self, x, 0, width, height), self, x + 1, width, height)
    ELSE W

\* GridMapType.on_choice
grid_on_choice(W, self, choice) ==
    LET Width == dict_get(W.objs[self].children, "Width", 0)
        Height == dict_get(W.objs[self].children, "Height", 0)
    IN IF choice \in {Width, Height} /\ W.objs[Width].known /\ W.objs[Height].known
       THEN grid_columns(W, self, 0, W.objs[Width].value, W.objs[Height].value)
       ELSE W

\* self.parent.on_choice(self) of each class
on_choice(W, self, choice) ==
    IF self # 0 /\ W.objs[self].kind = "GridMapType" THEN grid_on_choice(W, self, choice)
    ELSE W

\* ChoiceType.set_value, after on_choice
set_value_end(W, self) == IF raised(W) THEN W ELSE updated(W, self)

\* ChoiceType.set_value; the value of a port is its chosen_connections.
set_value(W, self, value) ==
    LET W1 == IF IsPort(W, self) THEN [W EXCEPT !.objs[self].known = TRUE]
              ELSE [W EXCEPT !.objs[self].value = value, !.objs[self].known = TRUE]
        W2 == IF IsPort(W, self) THEN port_on_set(W1, self) ELSE W1
    IN IF raised(W) THEN W
       ELSE IF raised(W2) THEN W2
       ELSE set_value_end(on_choice(W2, W2.objs[self].parent, self), self)

\* PortType.commit
commit(W, self) == set_value(W, self, W.objs[self].chosen_connections)

RECURSIVE union_keys(_, _, _)
\* The ports a cache lists under the i-th and later types.
union_keys(cache, types, i) ==
    IF i > Len(types) THEN {}
    ELSE Range(dict_keys(dict_get(cache, types[i], <<>>))) \cup union_keys(cache, types, i + 1)

\* PortType.get_candidates: the candidates that pass test_multi_connect.  The
\* set the method returns holds these and the failing ones it did not pop; it
\* is empty when there is none of these, and make_choice tests each again.
get_candidates(W, self) ==
    LET cache == W.objs[get_world(W, self)].open_cache
        kind == W.objs[self].kind
        type_candidates == union_keys(cache.by_type, compatible_types(kind), 1)
        compatible_candidates == union_keys(cache.by_compatible_type, bases(kind), 1)
        candidates == (type_candidates \cap compatible_candidates)
                         \ Range(W.objs[self].impossible_connections)
    IN {v \in candidates : test_multi_connect(W, self, v, 1) = ""}

\* The position of x in a list without repetition, 0 when it is not in it.
Index0(list, x) == IF x \in Range(list) THEN CHOOSE i \in DOMAIN list : list[i] = x ELSE 0

\* The element of a non-empty set that comes first in a list.
MinBy(set, list) == CHOOSE x \in set : \A y \in set : Index0(list, x) <= Index0(list, y)

\* get_candidates up to its loop: the open ports of a compatible type that
\* have the type of self as a compatible type, without impossible_connections.
type_candidates(W, self) ==
    LET cache == W.objs[get_world(W, self)].open_cache
        kind == W.objs[self].kind
    IN (union_keys(cache.by_type, compatible_types(kind), 1)
           \cap union_keys(cache.by_compatible_type, bases(kind), 1))
          \ Range(W.objs[self].impossible_connections)

\* A loop that returns the candidates without testing any.
candidates_untested(W, self, candidates, order) ==
    candidates

RECURSIVE candidates_loop(_, _, _, _)
\* The loop of get_candidates: candidates.pop() gives the first of order that
\* is left; a port that fails test_multi_connect is dropped, the first that
\* passes is put back and ends the loop.
candidates_loop(W, self, candidates, order) ==
    LET v == MinBy(candidates, order)
    IN IF candidates = {} THEN {}
       ELSE IF test_multi_connect(W, self, v, 1) # ""
       THEN candidates_loop(W, self, candidates \ {v}, order)
       ELSE candidates

\* PortType.get_candidates: the set it returns when its set of candidates
\* pops in the order given.
get_candidates_returned(W, self, order) ==
    candidates_loop(W, self, type_candidates(W, self), order)

\* A fast_deduce that never commits the port.
port_fast_deduce_open(W, self) ==
    LET W1 == build_open_cache(W, self)
    IN IF raised(W) THEN W
       ELSE IF ~can_commit(W1, self) /\ get_candidates(W1, self) = {}
       THEN [W1 EXCEPT !.err = "LogicError"]
       ELSE W1

\* PortType.fast_deduce
port_fast_deduce(W, self) ==
    LET W1 == build_open_cache(W, self)
        r == W1.objs[self]
    IN IF raised(W) THEN W
       ELSE IF ~r.known /\ r.maximum_connections # NoLimit
               /\ dict_sum(r.chosen_connections) = r.maximum_connections
       THEN commit(W1, self)
       ELSE IF ~can_commit(W1, self) /\ get_candidates(W1, self) = {}
       THEN [W1 EXCEPT !.err = "LogicError"]
       ELSE W1


\* EnumChoiceType(values=...) and the class attributes of EnumChoiceType.
EnumChoice(parent, values, impossible_values) ==
    [kind |-> "EnumChoiceType", parent |-> parent, name |-> "", children |-> <<>>,
     dependents |-> <<>>, dependencies |-> {},
     known |-> FALSE, value |-> "", strategy |-> "", default |-> "EnumEvenDistribution",
     values |-> values, impossible_values |-> impossible_values]

\* An enum fast_deduce that sets the first of the values when one is left.
enum_fast_deduce_first(W, self) ==
    LET r == W.objs[self]
    IN IF raised(W) THEN W
       ELSE IF Len(r.impossible_values) + 1 < Len(r.values) THEN W
       ELSE IF Len(r.impossible_values) + 1 = Len(r.values)
       THEN set_value(W, self, r.values[1])
       ELSE IF Len(r.impossible_values) = Len(r.values) THEN [W EXCEPT !.err = "LogicError"]
       ELSE [W EXCEPT !.err = "ValueError"]

\* EnumChoiceType.fast_deduce
enum_fast_deduce(W, self) ==
    LET r == W.objs[self]
        possible == Except(r.values, Range(r.impossible_values))
    IN IF raised(W) THEN W
       ELSE IF Len(r.impossible_values) + 1 < Len(r.values) THEN W
       ELSE IF Len(r.impossible_values) + 1 = Len(r.values)
       THEN (IF possible # <<>> THEN set_value(W, self, possible[1])
             ELSE [W EXCEPT !.err = "ValueError"])
       ELSE IF Len(r.impossible_values) = Len(r.values) THEN [W EXCEPT !.err = "LogicError"]
       ELSE [W EXCEPT !.err = "ValueError"]

\* RequiredGoalsVertex.fast_deduce and OptionalGoalsVertex.fast_deduce in a world
\* without goals: conditions is empty.
goals_fast_deduce(W, self, order) ==
    IF raised(W) THEN W
    ELSE IF ~W.objs[self].condition_fixed
    THEN vertex_fast_deduce(
            set_condition(W, self, simplify(W.objs, And(<<>>))), self, order)
    ELSE vertex_fast_deduce(W, self, order)

\* obj.fast_deduce() of each class
fast_deduce(W, obj, order) ==
    LET kind == W.objs[obj].kind
    IN CASE kind = "VertexType" -> vertex_fast_deduce(W, obj, order)
         [] kind \in {"RequiredGoalsVertex", "OptionalGoalsVertex"} ->
                goals_fast_deduce(W, obj, order)
         [] kind \in {"PortType", "MovementPortType"} -> port_fast_deduce(W, obj)
         [] kind = "EnumChoiceType" -> enum_fast_deduce(W, obj)
         [] OTHER -> W

\* A popitem that takes the key stored last.
popitem_last(queue) ==
    [key |-> queue[Len(queue)], rest |-> SubSeq(queue, 1, Len(queue) - 1)]

\* BranchingOrderedDictionary.popitem: the key at _first and what is left.
popitem(queue) ==
    [key |-> Head(queue), rest |-> Tail(queue)]

\* WorldType.deduce: one turn of the loop.
deduce_step(W, world, order) ==
    LET item == popitem(W.objs[world].fast_deduction_objects)
    IN fast_deduce([W EXCEPT !.objs[world].fast_deduction_objects = item.rest],
                   item.key, order)

\* WorldType(): WorldType.__ctor__, StartingPositionType.__ctor__ and
\* MovementPortType.__ctor__ make the world 1, start_position 2, start_port 3,
\* its can_enter 4 and can_exit 5, RequiredGoals 6 and OptionalGoals 7.
World ==
    LET named(object, name, children) ==
            [object EXCEPT !.name = name, !.children = children]
        world == named(GameObject("WorldType", 0), "",
                       <<<<"start_position", 2>>, <<"RequiredGoals", 6>>,
                         <<"OptionalGoals", 7>>>>)
                    @@ [started_generation |-> FALSE, fast_deduction_objects |-> <<>>,
                        open_cache |-> NoCache]
        objects == <<world,
                     named(GameObject("StartingPositionType", 1), "start_position",
                           <<<<"start_port", 3>>>>),
                     named(Port("MovementPortType", 2, NoLimit, NoLimit, 0, 0,
                                "RandomPortStrategy(conservative)"), "start_port",
                           <<<<"can_enter", 4>>, <<"can_exit", 5>>>>),
                     named([Vertex(4, 3) EXCEPT !.condition = TrueCondition], "can_enter", <<>>),
                     named([Vertex(5, 3) EXCEPT !.condition = TrueCondition], "can_exit", <<>>),
                     named([Vertex(6, 1) EXCEPT !.kind = "RequiredGoalsVertex"],
                           "RequiredGoals", <<>>),
                     named([Vertex(7, 1) EXCEPT !.kind = "OptionalGoalsVertex"],
                           "OptionalGoals", <<>>)>>
    IN [objs |-> objects, err |-> "", ret |-> FALSE]

start_port == 3
FirstObject == 8    \* the first object a program adds to World

(***************************************************************************)
(* Strategies and the generation driver.  rng is the random source of a    *)
(* seed: the key it gives for each tag.  rng.order lists the choices and   *)
(* rng.connection the ports by rising key, rng.commit tells whether the    *)
(* key of COMMIT is below or above the keys of the ports, rng.value lists  *)
(* the values of an enum by rising key.                                    *)
(***************************************************************************)
\* What make_choice returns besides the world.
COMMIT == "COMMIT"

RECURSIVE get_string_path(_, _)
\* GameObjectType.get_string_path: '.'.join(self.path)
get_string_path(W, o) ==
    IF W.objs[o].parent = 0 THEN get_name(W, o)
    ELSE get_string_path(W, W.objs[o].parent) \o "." \o get_name(W, o)

RECURSIVE find_root(_, _, _, _)
\* GameObjectType.object_from_path, "find root": the last of obj and its
\* ancestors that has the name, 0 for None.
find_root(W, obj, name, parent) ==
    IF obj = 0 THEN parent
    ELSE find_root(W, W.objs[obj].parent, name,
                   IF get_name(W, obj) = name THEN obj ELSE parent)

RECURSIVE walk_path(_, _, _, _)
\* ... parent = parent.children[path[pos]] from pos on; path is a string, so
\* path[pos] is its character at pos.
walk_path(W, parent, path, pos) ==
    LET children == W.objs[parent].children
        key == SubSeq(path, pos, pos)
    IN IF pos > Len(path) THEN [err |-> "", obj |-> parent]
       ELSE IF ~dict_has(children, key) THEN [err |-> "KeyError", obj |-> 0]
       ELSE walk_path(W, dict_get(children, key, 0), path, pos + 1)

\* GameObjectType.object_from_path(path) with the string a strategy gives:
\* the exception it raises and the object it returns.
object_from_path(W, self, path) ==
    LET parent == find_root(W, self, SubSeq(path, 1, 1), 0)
    IN IF parent = 0 THEN [err |-> "ValueError", obj |-> 0]
       ELSE walk_path(W, parent, path, 2)

\* RandomPortStrategy.make_choice; W.ret is the token.
random_port_make_choice(W, choice, rng, conservative) ==
    LET valid == get_candidates(W, choice)
        value == MinBy(valid, rng.connection)
    IN IF ~W.objs[get_world(W, choice)].open_cache.built
       THEN [W EXCEPT !.err = "AttributeError"]
       ELSE IF can_commit(W, choice) /\ (conservative \/ rng.commit \/ valid = {})
       THEN Return(commit(W, choice), COMMIT)
       ELSE IF valid = {} THEN [W EXCEPT !.err = "ValueError"]
       ELSE Return(multi_connect(W, choice, value, 1), get_string_path(W, value))

\* EnumEvenDistribution.make_choice
enum_make_choice(W, choice, rng) ==
    LET r == W.objs[choice]
        possible == Range(r.values) \ Range(r.impossible_values)
        value == MinBy(possible, rng.value)
    IN IF possible = {} THEN [W EXCEPT !.err = "ValueError"]
       ELSE Return(set_value(W, choice, value), value)

\* strategy.make_choice(choice) of each strategy
make_choice(W, choice, rng) ==
    LET strategy == W.objs[choice].strategy
    IN CASE strategy = "RandomPortStrategy" -> random_port_make_choice(W, choice, rng, FALSE)
         [] strategy = "RandomPortStrategy(conservative)" ->
                random_port_make_choice(W, choice, rng, TRUE)
         [] strategy = "EnumEvenDistribution" -> enum_make_choice(W, choice, rng)
         [] OTHER -> [W EXCEPT !.err = "TypeError"]

Strategies == {"RandomPortStrategy", "RandomPortStrategy(conservative)", "EnumEvenDistribution"}

\* A make that takes a choice without strategy and default for a contradiction.
make_or_contradiction(W, self, rng) ==
    LET r == W.objs[self]
    IN IF raised(W) THEN W
       ELSE IF r.known THEN Return(W, "")
       ELSE IF r.strategy # "" THEN make_choice(W, self, rng)
       ELSE IF r.default \in Strategies
       THEN make_choice([W EXCEPT !.objs[self].strategy = r.default], self, rng)
       ELSE IF r.default # "" THEN Return(set_value(W, self, r.default), "")
       ELSE [W EXCEPT !.err = "LogicError"]

\* ChoiceType.make; a default that is "" is None.
make(W, self, rng) ==
    LET r == W.objs[self]
    IN IF raised(W) THEN W
       ELSE IF r.known THEN Return(W, "")
       ELSE IF r.strategy # "" THEN make_choice(W, self, rng)
       ELSE IF r.default \in Strategies
       THEN make_choice([W EXCEPT !.objs[self].strategy = r.default], self, rng)
       ELSE IF r.default # "" THEN Return(set_value(W, self, r.default), "")
       ELSE [W EXCEPT !.err = "ValueError"]

\* A driver that takes its snapshot after the choice is made.
make_and_fork(W, choice, rng) ==
    [saved_state |-> [make(W, choice, rng) EXCEPT !.ret = FALSE],
     world |-> make(W, choice, rng)]

\* WorldType.generate: saved_state = world.fork(); token = choice.make().  The
\* fork has the attributes the world has at the fork; make acts on the world.
fork_and_make(W, choice, rng) ==
    [saved_state |-> W, world |-> make(W, choice, rng)]

\* EnumEvenDistribution.eliminate_choice
enum_eliminate_choice(W, choice, token) ==
    IF token \in Range(W.objs[choice].impossible_values) THEN W
    ELSE mark_fast_deduction([W EXCEPT !.objs[choice].impossible_values = Append(@, token)],
                             choice)

\* RandomPortStrategy.eliminate_choice: impossible_connections is a tuple
\* and object_from_path returns an object, so += raises TypeError.
random_port_eliminate_choice(W, choice, token) ==
    LET found == object_from_path(W, choice, token)
    IN IF token = COMMIT THEN [W EXCEPT !.objs[choice].commit_impossible = TRUE]
       ELSE IF found.err # "" THEN [W EXCEPT !.err = found.err]
       ELSE [W EXCEPT !.err = "TypeError"]

\* ChoiceType.eliminate
eliminate(W, self, token) ==
    IF raised(W) THEN W
    ELSE IF W.objs[self].strategy = "" THEN [W EXCEPT !.err = "LogicError"]
    ELSE IF W.objs[self].strategy = "EnumEvenDistribution"
    THEN enum_eliminate_choice(W, self, token)
    ELSE random_port_eliminate_choice(W, self, token)

\* ChoiceType(default=...): "" is None
Choice(default) ==
    [kind |-> "ChoiceType", parent |-> 0, name |-> "", children |-> <<>>,
     dependents |-> <<>>, dependencies |-> {},
     known |-> FALSE, value |-> "", strategy |-> "", default |-> default]

\* WorldType.generate up to world.deduce(): started_generation is set and every
\* object marked.  world.fork() gives the objects of the new universe the
\* attributes of those it is forked from.
generate_start(W, world) ==
    mark_each([W EXCEPT !.objs[world].started_generation = TRUE], descendants(W, world), 1)

\* The list with the elements of a set, in the order of a list.
Sorted(set, list) == Except(list, Range(list) \ set)

\* A collection that leaves out the choices below the first level.
collect_choices_children(W, world, rng) ==
    LET found == child_values(W, world)
        unknown == {found[i] : i \in {j \in DOMAIN found :
                                        IsChoice(W, found[j]) /\ ~W.objs[found[j]].known}}
    IN Sorted(unknown, rng.order)

\* WorldType.generate: the choices collected and sorted by their key.
collect_choices(W, world, rng) ==
    LET found == descendants(W, world)
        unknown == {found[i] : i \in {j \in DOMAIN found :
                                        IsChoice(W, found[j]) /\ ~W.objs[found[j]].known}}
    IN Sorted(unknown, rng.order)

(***************************************************************************)
(* The calls a program makes on conditions: AtLeast on some arguments,     *)
(* AtLeast with an earlier result among the arguments, and a vertex        *)
(* becoming known.                                                         *)
(***************************************************************************)
Known(access) == [is_known |-> TRUE, known_access |-> access]

Leaves == {TrueCondition, FalseCondition, PlaceholderCondition("one", 0)}
             \cup {VertexObject(v) : v \in Vertices}
ListLeaves == {PlaceholderCondition("one", 0), VertexObject(1)}
SeqsUpTo(S, n) == UNION {[1..m -> S] : m \in 0..n}
Lists == {List(s) : s \in SeqsUpTo(ListLeaves, MaxList)}
NestedLists == {List(<<l, x>>) : l \in Lists, x \in ListLeaves}
Arguments == Leaves \cup Lists \cup NestedLists

CondInit ==
    /\ StoreIdle
    /\ WorldIdle
    /\ TreeIdle
    /\ condCount \in -1..(MaxArgs + 2)
    /\ condArgs \in SeqsUpTo(Arguments, MaxArgs)
    /\ condResult = NoResult
    /\ condDepth = 0
    /\ condKnown = [v \in Vertices |-> Unknown]

\* result = AtLeast(count, *args)
Construct ==
    /\ condResult = NoResult
    /\ condResult' = AtLeast(condCount, condArgs)
    /\ UNCHANGED <<condCount, condArgs, condDepth, condKnown, notCondVars>>

\* the result becomes the first argument of a next AtLeast
Nest(count, x) ==
    /\ condResult # NoResult /\ condDepth < MaxDepth
    /\ condCount' = count
    /\ condArgs' = <<condResult, x>>
    /\ condResult' = NoResult
    /\ condDepth' = condDepth + 1
    /\ UNCHANGED <<condKnown, notCondVars>>

\* a vertex becomes known (VertexType._set_known_access)
Learn(v, access) ==
    /\ condResult # NoResult /\ ~condKnown[v].is_known
    /\ condKnown' = [condKnown EXCEPT ![v] = Known(access)]
    /\ UNCHANGED <<condCount, condArgs, condResult, condDepth, notCondVars>>

CondNext ==
    \/ Construct
    \/ \E count \in 1..2, x \in ListLeaves : Nest(count, x)
    \/ \E v \in Vertices, access \in BOOLEAN : Learn(v, access)

SpecCond == CondInit /\ [][CondNext]_vars

\* The conditions AtLeast is to count, in the order given.
Children == flatten_and_append_conditions(List(condArgs), <<>>)
KnownTrue == {i \in DOMAIN Children : is_known_true(condKnown, Children[i])}
NotKnownFalse == {i \in DOMAIN Children : ~is_known_false(condKnown, Children[i])}

\* C9: for AtLeast(n, children) with 1 <= n <= len(children), whatever is
\* known of the children: is_known_true() iff at least n children are known
\* true, is_known_false() iff fewer than n children are not known false, and
\* never both.
AtLeastKnown ==
    (condResult # NoResult /\ 1 <= condCount /\ condCount <= Len(Children)) =>
        /\ is_known_true(condKnown, condResult) <=> Cardinality(KnownTrue) >= condCount
        /\ is_known_false(condKnown, condResult) <=> Cardinality(NotKnownFalse) < condCount
        /\ ~(is_known_true(condKnown, condResult) /\ is_known_false(condKnown, condResult))

\* AtLeast(2, ...) of an AtLeastCondition and a vertex, known true since the
\* vertices became known, one of them known false.
AtLeastKnownWitness ==
    /\ condResult.op = "AtLeastCondition" /\ condCount = 2 /\ Len(Children) = 2
    /\ Children[1].op = "AtLeastCondition" /\ Children[2].op = "VertexCondition"
    /\ \E v \in Vertices : condKnown[v].is_known /\ ~condKnown[v].known_access
    /\ is_known_true(condKnown, condResult)

RECURSIVE Flat(_)
\* The conditions of an argument list, left to right, lists opened and
\* vertices wrapped.
Flat(s) ==
    IF s = <<>> THEN <<>>
    ELSE LET x == Head(s)
         IN (CASE x.op = "list" -> Flat(x.items)
               [] x.op = "VertexType" -> <<VertexCondition(x.vertex)>>
               [] OTHER -> <<x>>) \o Flat(Tail(s))

\* C10: AtLeast(count, conds) is TrueCondition when count <= 0, FalseCondition
\* when count exceeds the number of flattened conditions, the one condition
\* itself when count = 1 and there is exactly one, and otherwise an
\* AtLeastCondition of that count over the flattened conditions, vertices
\* wrapped as VertexCondition.
AtLeastConstruction ==
    condResult # NoResult =>
        condResult = (IF condCount <= 0 THEN TrueCondition
                      ELSE IF condCount > Len(Flat(condArgs)) THEN FalseCondition
                      ELSE IF condCount = 1 /\ Len(Flat(condArgs)) = 1 THEN Flat(condArgs)[1]
                      ELSE AtLeastCondition(condCount, Flat(condArgs)))

\* AtLeast(1, x) of a vertex inside a list inside a list gave its
\* VertexCondition.
AtLeastConstructionWitness ==
    /\ condCount = 1 /\ Len(condArgs) = 1 /\ condArgs[1] \in NestedLists
    /\ condResult = VertexCondition(1)


RECURSIVE TruthOf(_, _, _)
\* The truth of a condition when the vertices are accessible as in access
\* and a placeholder stands for a condition with the truth value held.
TruthOf(c, access, held_) ==
    CASE c.op = "TrueCondition" -> TRUE
      [] c.op = "FalseCondition" -> FALSE
      [] c.op = "VertexCondition" -> access[c.vertex]
      [] c.op = "AtLeastCondition" ->
            Cardinality({i \in DOMAIN c.conditions : TruthOf(c.conditions[i], access, held_)})
               >= c.count
      [] OTHER -> held_

\* The children of an AtLeastCondition for which find(child) has the vertex.
NecessaryFor(c, v) ==
    {i \in DOMAIN c.conditions : v \in Range(find_necessary_vertices(c.conditions[i]))}
SufficientFor(c, v) ==
    {i \in DOMAIN c.conditions : v \in Range(find_sufficient_vertices(c.conditions[i]))}

\* C29: whatever the vertices are, the condition is false when a vertex of
\* find_necessary_vertices() is not accessible and true when one of
\* find_sufficient_vertices() is; of AtLeast(n, m children) a vertex is
\* necessary iff it is necessary for at least m - n + 1 children, and
\* sufficient iff it is sufficient for at least n children.
EnumerationSound ==
    condResult # NoResult =>
        /\ \A access \in [Vertices -> BOOLEAN], held_ \in BOOLEAN :
              /\ \A v \in Range(find_necessary_vertices(condResult)) :
                    ~access[v] => ~TruthOf(condResult, access, held_)
              /\ \A v \in Range(find_sufficient_vertices(condResult)) :
                    access[v] => TruthOf(condResult, access, held_)
        /\ condResult.op = "AtLeastCondition" =>
              \A v \in Vertices :
                 /\ v \in Range(find_necessary_vertices(condResult))
                       <=> Cardinality(NecessaryFor(condResult, v))
                              >= Len(condResult.conditions) - condResult.count + 1
                 /\ v \in Range(find_sufficient_vertices(condResult))
                       <=> Cardinality(SufficientFor(condResult, v)) >= condResult.count

\* An AtLeast over an AtLeast for which one vertex is necessary and the other,
\* necessary for a child, is not.
EnumerationSoundWitness ==
    /\ condResult # NoResult /\ condResult.op = "AtLeastCondition"
    /\ \E i \in DOMAIN condResult.conditions : condResult.conditions[i].op = "AtLeastCondition"
    /\ \E v, w \in Vertices :
          /\ v \in Range(find_necessary_vertices(condResult))
          /\ w \notin Range(find_necessary_vertices(condResult))
          /\ NecessaryFor(condResult, w) # {}

\* A vertex is sufficient for an AtLeast that counts two.
SufficientForTwo ==
    /\ condResult # NoResult /\ condResult.op = "AtLeastCondition" /\ condResult.count >= 2
    /\ find_sufficient_vertices(condResult) # <<>>
    /\ \E w \in Vertices : w \notin Range(find_sufficient_vertices(condResult))
                             /\ SufficientFor(condResult, w) # {}

(***************************************************************************)
(* The methods of a condition term: substitute, simplify and the Any       *)
(* constructor, called on a term built from the constants, placeholders,   *)
(* two vertices and one enum choice, in each state of these objects.       *)
(***************************************************************************)
MaxChildren == 2     \* conditions given to one AtLeast of a term
TermEnum == NumVertices + 1      \* the enum choice: object after the vertices

TermLeaves ==
    {TrueCondition, FalseCondition, PlaceholderCondition("one", 0),
     PlaceholderCondition("one", 1), PlaceholderCondition("three", 0),
     EnumCondition(TermEnum, {"a", "b"}), EnumCondition(TermEnum, {"a"})}
       \cup {VertexCondition(v) : v \in Vertices}

InnerLeaves ==
    {TrueCondition, PlaceholderCondition("one", 0), PlaceholderCondition("one", 1),
     VertexCondition(1), EnumCondition(TermEnum, {"a", "b"})}

\* c = Any(Placeholder("one"), False, Placeholder("three"))
ExampleTerm ==
    Or(<<PlaceholderCondition("one", 0), FalseCondition, PlaceholderCondition("three", 0)>>)

InnerTerms ==
    {AtLeast(n, args) : n \in 1..MaxChildren, args \in [1..MaxChildren -> InnerLeaves]}

Terms ==
    TermLeaves \cup {ExampleTerm}
       \cup {AtLeast(n, args) : n \in 1..MaxChildren, args \in [1..MaxChildren -> TermLeaves]}
       \cup {AtLeast(n, <<x>> \o args) :
                n \in 1..MaxChildren, x \in InnerTerms,
                args \in [1..(MaxChildren - 1) -> InnerLeaves]}

\* The states of the objects a term refers to: the vertices (the first may be
\* equivalent to the second) and the enum choice with values a, b, c.
TermObjects ==
    LET vertex(known, access, eq) ==
            [is_known |-> known, known_access |-> access, equivalent_to |-> eq]
        enum(known, value, impossible) ==
            [known |-> known, value |-> value, impossible_values |-> impossible]
        first == {vertex(FALSE, FALSE, 0), vertex(TRUE, TRUE, 0), vertex(TRUE, FALSE, 0),
                  vertex(FALSE, FALSE, NumVertices)}
        other == {vertex(FALSE, FALSE, 0), vertex(TRUE, TRUE, 0), vertex(TRUE, FALSE, 0)}
        enums == {enum(FALSE, "", <<>>), enum(FALSE, "", <<"a">>), enum(TRUE, "a", <<>>),
                  enum(TRUE, "c", <<"a">>)}
    IN {[o \in 1..TermEnum |-> IF o = 1 THEN a ELSE IF o = TermEnum THEN e ELSE b] :
           a \in first, b \in other, e \in enums}

TreeInit ==
    /\ StoreIdle
    /\ CondIdle
    /\ WorldIdle
    /\ \E c \in Terms, K \in TermObjects : calc = [op |-> "new", c |-> c, K |-> K]

\* result = c.substitute(name, condition, base); same is "result is c"
SubstituteTerm(name, condition, base) ==
    /\ calc.op = "new"
    /\ calc' = [op |-> "substitute", c |-> calc.c, K |-> calc.K, name |-> name,
                condition |-> condition, base |-> base,
                result |-> substitute(calc.c, PlaceholderName(name), condition, base),
                same |-> ~substitutes(calc.c, PlaceholderName(name), base)]
    /\ UNCHANGED notTreeVars

\* once = c.simplify(); twice = once.simplify()
SimplifyTerm ==
    /\ calc.op = "new"
    /\ calc' = [op |-> "simplify", c |-> calc.c, K |-> calc.K,
                once |-> simplify(calc.K, calc.c),
                twice |-> simplify(calc.K, simplify(calc.K, calc.c))]
    /\ UNCHANGED notTreeVars

\* c is Any(a, b): nested = Any(c, x), listed = Any([a, b], x), flat = Any(a, b, x)
AnyTerm(x) ==
    /\ calc.op = "new"
    /\ calc.c.op = "AtLeastCondition" /\ calc.c.count = 1
    /\ calc' = [op |-> "any", c |-> calc.c, K |-> calc.K, x |-> x,
                nested |-> Or(<<calc.c, x>>),
                listed |-> Or(<<List(calc.c.conditions), x>>),
                flat |-> Or(calc.c.conditions \o <<x>>)]
    /\ UNCHANGED notTreeVars

TreeNext ==
    \/ \E name \in {"one", "three", "bogus"},
          condition \in {TrueCondition, FalseCondition, VertexCondition(NumVertices)},
          base \in 0..1 : SubstituteTerm(name, condition, base)
    \/ SimplifyTerm
    \/ \E x \in TermLeaves : AnyTerm(x)

SpecTree == TreeInit /\ [][TreeNext]_vars

RECURSIVE Rewritten(_, _, _, _, _)
\* out is the term c with each placeholder of the name, whose base is None or
\* the base given, replaced by r and the rest as it was.
Rewritten(c, out, name, r, base) ==
    IF c.op = "PlaceholderCondition" /\ c.name = name /\ c.base \in {0, base} THEN out = r
    ELSE IF c.op = "AtLeastCondition"
    THEN /\ out.op = "AtLeastCondition"
         /\ out.count = c.count
         /\ Len(out.conditions) = Len(c.conditions)
         /\ \A i \in DOMAIN c.conditions :
               Rewritten(c.conditions[i], out.conditions[i], name, r, base)
    ELSE out = c

RECURSIVE HasPlaceholder(_, _, _)
\* Some placeholder of the term has the name and a base that is None or the
\* base given.
HasPlaceholder(c, name, base) ==
    IF c.op = "PlaceholderCondition" THEN c.name = name /\ c.base \in {0, base}
    ELSE IF c.op = "AtLeastCondition"
    THEN \E i \in DOMAIN c.conditions : HasPlaceholder(c.conditions[i], name, base)
    ELSE FALSE

RECURSIVE TermTrue(_, _)
RECURSIVE TermFalse(_, _)
\* The term is true whatever is decided later.
TermTrue(K, c) ==
    CASE c.op = "TrueCondition" -> TRUE
      [] c.op = "VertexCondition" -> K[c.vertex].is_known /\ K[c.vertex].known_access
      [] c.op = "EnumCondition" -> K[c.enum].known /\ K[c.enum].value \in c.values
      [] c.op = "AtLeastCondition" ->
            Cardinality({i \in DOMAIN c.conditions : TermTrue(K, c.conditions[i])}) >= c.count
      [] OTHER -> FALSE

\* The term is false whatever is decided later.
TermFalse(K, c) ==
    CASE c.op = "FalseCondition" -> TRUE
      [] c.op = "VertexCondition" -> K[c.vertex].is_known /\ ~K[c.vertex].known_access
      [] c.op = "EnumCondition" -> K[c.enum].known /\ K[c.enum].value \notin c.values
      [] c.op = "AtLeastCondition" ->
            Cardinality({i \in DOMAIN c.conditions : ~TermFalse(K, c.conditions[i])}) < c.count
      [] OTHER -> FALSE

\* C11: substitute(name, r, base) returns the term with each placeholder of
\* that name (base None or the base given) replaced by r and the rest
\* unchanged; the result is known true or known false exactly when the
\* rewritten term is; when no placeholder matches the result is c itself.
SubstituteRewrites ==
    calc.op = "substitute" =>
        /\ Rewritten(calc.c, calc.result, calc.name, calc.condition, calc.base)
        /\ is_known_true(calc.K, calc.result) <=> TermTrue(calc.K, calc.result)
        /\ is_known_false(calc.K, calc.result) <=> TermFalse(calc.K, calc.result)
        /\ ~HasPlaceholder(calc.c, calc.name, calc.base)
              => calc.same /\ calc.result = calc.c

\* c = Any(Placeholder("one"), False, Placeholder("three")) and
\* c.substitute("one", True) is known true.
SubstituteRewritesWitness ==
    /\ calc.op = "substitute" /\ calc.c = ExampleTerm
    /\ calc.name = "one" /\ calc.condition = TrueCondition
    /\ calc.result # calc.c /\ ~calc.same
    /\ is_known_true(calc.K, calc.result)

\* C12: c.simplify().simplify() is c.simplify(), whatever the term and the
\* state of the vertices and the enum choice it refers to.
SimplifyIdempotent ==
    calc.op = "simplify" => calc.twice = calc.once

\* A term whose simplify() is a smaller AtLeastCondition, through a vertex
\* that is equivalent to another.
SimplifyIdempotentWitness ==
    /\ calc.op = "simplify" /\ calc.once # calc.c
    /\ calc.once.op = "AtLeastCondition"
    /\ calc.K[1].equivalent_to # 0
    /\ \E i \in DOMAIN calc.c.conditions : calc.c.conditions[i] = VertexCondition(1)

\* C13 as the spec words it: Any(Any(a, b), x) is equal to Any(a, b, x).
AnyAssociative ==
    calc.op = "any" => calc.nested = calc.flat

\* C13: a list among the arguments of Any is flattened into the conditions,
\* Any([a, b], x) = Any(a, b, x); a condition Any(a, b) among them is kept as
\* one condition, and Any(Any(a, b), x) is known true and known false exactly
\* when Any(a, b, x) is.
AnyFlattensLists ==
    calc.op = "any" =>
        /\ calc.listed = calc.flat
        /\ calc.nested = AtLeastCondition(1, <<calc.c, calc.x>>)
        /\ is_known_true(calc.K, calc.nested) <=> is_known_true(calc.K, calc.flat)
        /\ is_known_false(calc.K, calc.nested) <=> is_known_false(calc.K, calc.flat)

\* Any(Any(a, b), x) with b known true: both terms are known true and they
\* differ.
AnyFlattensListsWitness ==
    /\ calc.op = "any" /\ calc.nested # calc.flat
    /\ Len(calc.flat.conditions) = 3
    /\ is_known_true(calc.K, calc.nested)

(***************************************************************************)
(* The calls a program makes on ports: two Port objects P and Q with the   *)
(* limits of the behaviour in a World, whose start_port is a MovementPort  *)
(* without limits.                                                         *)
(***************************************************************************)
MaxCount == 2    \* counts given to the calls are -1..MaxCount
MaxSum == 2      \* calls that take a port above MaxSum connections are left out

\* maximum_connections and maximum_unique_connections of P and of Q
PortLimits ==
    {<<1, 1, 1, 1>>, <<MaxCount, 1, 1, 1>>, <<MaxCount, MaxCount, MaxCount, MaxCount>>,
     <<NoLimit, NoLimit, MaxCount, 1>>, <<NoLimit, 1, NoLimit, MaxCount>>,
     <<MaxCount, NoLimit, 1, NoLimit>>}

\* The world of the port calls.
PortWorld(limits) ==
    add_new(add_new(World, 1, "P", Port("PortType", 0, limits[1], limits[2], 1, 1,
                                        "RandomPortStrategy")),
            1, "Q", Port("PortType", 0, limits[3], limits[4], 1, 1, "RandomPortStrategy"))

Ports(W) == {o \in DOMAIN W.objs : IsPort(W, o)}

PortInit ==
    /\ StoreIdle
    /\ CondIdle
    /\ TreeIdle
    /\ firstRun = NoWorld /\ gen = [pc |-> "idle"] /\ seed = NoRng /\ plan = [type |-> "ports"]
    /\ \E limits \in PortLimits : theWorld = PortWorld(limits)

\* The theWorld at a call: the exception of the call before is gone.
AtCall == [theWorld EXCEPT !.err = "", !.ret = FALSE]

Capped(W) == \A p \in Ports(W) : dict_sum(W.objs[p].chosen_connections) <= MaxSum

PortCall(W) ==
    /\ Capped(W)
    /\ theWorld' = W
    /\ UNCHANGED <<firstRun, gen, seed, plan, notWorldVars>>

Connect(p, q, count) == PortCall(connect(AtCall, p, q, count))
MultiConnect(p, q, count) == PortCall(multi_connect(AtCall, p, q, count))
Disconnect(p, q, count) == PortCall(disconnect(AtCall, p, q, count))
DisconnectAll(p) == PortCall(disconnect_all(AtCall, p))
CommitPort(p) == PortCall(commit(AtCall, p))

PortNext ==
    \/ \E p, q \in Ports(theWorld) : \E count \in -1..MaxCount : Connect(p, q, count)
    \/ \E p, q \in Ports(theWorld) : \E count \in -1..MaxCount : MultiConnect(p, q, count)
    \/ \E p, q \in Ports(theWorld) : \E count \in -1..MaxCount : Disconnect(p, q, count)
    \/ \E p \in Ports(theWorld) : DisconnectAll(p)
    \/ \E p \in Ports(theWorld) : CommitPort(p)

SpecPort == PortInit /\ [][PortNext]_vars

Connections(p) == theWorld.objs[p].chosen_connections

\* C5: after any sequence of connect, multi_connect, disconnect,
\* disconnect_all and commit calls, accepted or rejected, every port has at
\* most maximum_connections connections and at most
\* maximum_unique_connections peers where these are not None, and each of its
\* peers has it as a peer with the same count.
PortInvariant ==
    \A p \in Ports(theWorld) :
        LET r == theWorld.objs[p]
        IN /\ r.maximum_connections # NoLimit
                => dict_sum(Connections(p)) <= r.maximum_connections
           /\ r.maximum_unique_connections # NoLimit
                => Len(Connections(p)) <= r.maximum_unique_connections
           /\ \A q \in Range(dict_keys(Connections(p))) :
                 /\ dict_has(Connections(q), p)
                 /\ dict_get(Connections(q), p, 0) = dict_get(Connections(p), q, 0)

\* A call was rejected on a port that has two peers, one of them committed.
PortInvariantWitness ==
    /\ plan.type = "ports"
    /\ theWorld.err = "ValueError"
    /\ \E p, q \in Ports(theWorld) :
          /\ Len(Connections(p)) = 2 /\ dict_get(Connections(p), q, 0) = 1
          /\ theWorld.objs[q].known /\ ~theWorld.objs[p].known

\* C21 as stated: no port is a key of its own chosen_connections
\* (can_self_connect is False for every port class).
NoSelfConnection ==
    \A p \in Ports(theWorld) : ~dict_has(Connections(p), p)

(***************************************************************************)
(* fast_deduce of ports: P and Q are connected, committed and deduced.     *)
(***************************************************************************)
PortDeduceInit ==
    /\ StoreIdle
    /\ CondIdle
    /\ TreeIdle
    /\ firstRun = NoWorld /\ gen = [pc |-> "idle"] /\ seed = NoRng
    /\ \E limits \in PortLimits : theWorld = PortWorld(limits)
    /\ plan = [type |-> "port_deduce", op |-> "new", obj |-> 0, before |-> NoWorld]

\* A call; the world before it is kept for fast_deduce, the call C30 is about.
PortDeduceCall(W, op, obj, before) ==
    /\ Capped(W)
    /\ theWorld' = W
    /\ plan' = [type |-> "port_deduce", op |-> op, obj |-> obj, before |-> before]
    /\ UNCHANGED <<firstRun, gen, seed, notWorldVars>>

\* port.fast_deduce()
FastDeducePort(p) == PortDeduceCall(port_fast_deduce(AtCall, p), "fast_deduce", p, AtCall)

\* port.multi_connect(other, count)
ConnectPort(p, q, count) == PortDeduceCall(multi_connect(AtCall, p, q, count), "call", 0, NoWorld)

\* port.disconnect(other)
DisconnectPort(p, q) == PortDeduceCall(disconnect(AtCall, p, q, NoLimit), "call", 0, NoWorld)

\* port.commit()
CommitEarly(p) == PortDeduceCall(commit(AtCall, p), "call", 0, NoWorld)

PortDeduceNext ==
    \/ \E p \in Ports(theWorld) : FastDeducePort(p)
    \/ \E p, q \in Ports(theWorld) : \E count \in 1..MaxCount : ConnectPort(p, q, count)
    \/ \E p, q \in Ports(theWorld) : DisconnectPort(p, q)
    \/ \E p \in Ports(theWorld) : CommitEarly(p)

SpecPortDeduce == PortDeduceInit /\ [][PortDeduceNext]_vars

\* ChoiceType.get_value of a port that is known: the dictionary that commit
\* stored, which is chosen_connections itself.
get_value(W, p) == W.objs[p].chosen_connections

\* The ports that are open for p in the world B: those of a compatible type
\* that are not known, not impossible and accept one more connection with p.
OpenFor(B, p) ==
    {q \in Ports(B) : /\ ~B.objs[q].known
                      /\ q \notin Range(B.objs[p].impossible_connections)
                      /\ test_multi_connect(B, p, q, 1) = ""}

\* C30: fast_deduce of a port that is not known and has maximum_connections
\* connections commits it: value is chosen_connections and known is true.
\* Otherwise it raises LogicError when the port cannot commit and no port is a
\* candidate, and else leaves the port as it is.
PortFastDeduce ==
    (plan.type = "port_deduce" /\ plan.op = "fast_deduce") =>
        LET B == plan.before
            p == plan.obj
            r == B.objs[p]
            full == /\ ~r.known /\ r.maximum_connections # NoLimit
                    /\ dict_sum(r.chosen_connections) = r.maximum_connections
            stuck == ~can_commit(B, p) /\ OpenFor(B, p) = {}
        IN /\ full => /\ ~raised(theWorld)
                      /\ theWorld.objs[p].known
                      /\ get_value(theWorld, p) = r.chosen_connections
           /\ ~full /\ stuck => theWorld.err = "LogicError"
           /\ ~full /\ ~stuck => /\ ~raised(theWorld)
                                 /\ theWorld.objs[p] = r

\* A port that is full was committed by its fast_deduce.
PortFastDeduceWitness ==
    /\ plan.type = "port_deduce" /\ plan.op = "fast_deduce"
    /\ ~plan.before.objs[plan.obj].known
    /\ theWorld.objs[plan.obj].known
    /\ Len(get_value(theWorld, plan.obj)) = 1

\* fast_deduce raised LogicError.
PortStuck ==
    /\ plan.type = "port_deduce" /\ plan.op = "fast_deduce"
    /\ theWorld.err = "LogicError"

(***************************************************************************)
(* connect calls one at a time: each records the world it was made on and  *)
(* its arguments.  A program also commits ports and stores a port in       *)
(* impossible_connections.                                                 *)
(***************************************************************************)
MaxConnects == 3     \* calls of a behaviour

ConnectInit ==
    /\ StoreIdle
    /\ CondIdle
    /\ TreeIdle
    /\ firstRun = NoWorld /\ gen = [pc |-> "idle"] /\ seed = NoRng
    /\ \E limits \in PortLimits : theWorld = PortWorld(limits)
    /\ plan = [type |-> "connect", calls |-> 0, op |-> "new", self |-> 0, other |-> 0,
               count |-> 0, before |-> NoWorld]

ConnectCall(W, op, self, other, count) ==
    /\ plan.calls < MaxConnects
    /\ Capped(W)
    /\ theWorld' = W
    /\ plan' = [type |-> "connect", calls |-> plan.calls + 1, op |-> op, self |-> self,
                other |-> other, count |-> count, before |-> AtCall]
    /\ UNCHANGED <<firstRun, gen, seed, notWorldVars>>

\* self.connect(other, count)
ConnectTo(self, other, count) ==
    ConnectCall(connect(AtCall, self, other, count), "connect", self, other, count)

\* self.commit()
CommitSelf(self) ==
    ConnectCall(commit(AtCall, self), "commit", self, 0, 0)

\* self.impossible_connections += (other,)
RuleOut(self, other) ==
    /\ other \notin Range(theWorld.objs[self].impossible_connections)
    /\ ConnectCall([AtCall EXCEPT !.objs[self].impossible_connections = Append(@, other)],
                   "rule_out", self, other, 0)

ConnectNext ==
    \/ \E self, other \in Ports(theWorld) : \E count \in -1..MaxCount :
          ConnectTo(self, other, count)
    \/ \E self \in Ports(theWorld) : CommitSelf(self)
    \/ \E self, other \in Ports(theWorld) : RuleOut(self, other)

SpecConnect == ConnectInit /\ [][ConnectNext]_vars

\* The port a of the world B refuses count connections with b for one of the
\* reasons of C31.
Refuses(B, a, b, count) ==
    LET r == B.objs[a]
        d == r.chosen_connections
        total == dict_sum(d) - dict_get(d, b, 0) + count
        peers == Cardinality((Range(dict_keys(d)) \ {b}) \cup (IF count # 0 THEN {b} ELSE {}))
    IN \/ r.known
       \/ Range(compatible_types(r.kind)) \cap Range(bases(B.objs[b].kind)) = {}
       \/ r.maximum_connections # NoLimit /\ total > r.maximum_connections
       \/ r.maximum_unique_connections # NoLimit /\ peers > r.maximum_unique_connections
       \/ b \in Range(r.impossible_connections)

\* The call was a connect that raised.
ConnectRejected ==
    plan.type = "connect" /\ plan.op = "connect" /\ raised(theWorld)

\* C31, the reasons: connect(other, count) raises exactly when this port or
\* the peer is known, has the other's type outside compatible_types, would
\* exceed maximum_connections or maximum_unique_connections, or has the other
\* in impossible_connections.
RejectedExactlyWhen ==
    (plan.type = "connect" /\ plan.op = "connect") =>
        (raised(theWorld) <=> \/ Refuses(plan.before, plan.self, plan.other, plan.count)
                              \/ Refuses(plan.before, plan.other, plan.self, plan.count))

\* C31, the effect: a connect that raised left chosen_connections of both
\* ports as they were.
RejectedUnchanged ==
    ConnectRejected =>
        \A p \in {plan.self, plan.other} :
            Connections(p) = plan.before.objs[p].chosen_connections

\* C31, the committed ports: a port that was known before a call is known
\* after it with the same value.
CommittedKeeps ==
    plan.type = "connect" /\ plan.op # "new" =>
        \A p \in Ports(plan.before) :
            plan.before.objs[p].known
                => theWorld.objs[p].known /\ get_value(theWorld, p) = get_value(plan.before, p)

\* C31 as stated: connect(other, count) is rejected exactly for the reasons
\* listed, a rejected connect changes no chosen_connections of the two ports,
\* and the value of a known port never changes.
ConnectRejection ==
    RejectedExactlyWhen /\ RejectedUnchanged /\ CommittedKeeps

\* port.connect(port, 0) on a port connected to itself raised after it had
\* deleted the connection.
RejectedAfterDelete ==
    /\ ConnectRejected /\ plan.self = plan.other /\ plan.count = 0
    /\ dict_has(plan.before.objs[plan.self].chosen_connections, plan.self)
    /\ theWorld.err = "AttributeError"
    /\ Connections(plan.self) = <<>>

(***************************************************************************)
(* The calls a program makes on the tree of game objects: add_child and    *)
(* remove_child among a few Game objects that start without a parent.      *)
(***************************************************************************)
MaxObjects == 4      \* game objects of a behaviour
MaxCalls == 4        \* add_child and remove_child calls of a behaviour

ChildInit ==
    /\ StoreIdle
    /\ CondIdle
    /\ TreeIdle
    /\ firstRun = NoWorld /\ gen = [pc |-> "idle"] /\ seed = NoRng
    /\ theWorld = [objs |-> [o \in 1..MaxObjects |-> GameObject("GameType", 0)],
                   err |-> "", ret |-> FALSE]
    /\ plan = [type |-> "children", calls |-> 0, op |-> "", self |-> 0, child |-> 0,
               name |-> "", before |-> NoWorld]

\* The effect of a call that gave W, and the record of the call.
ChildCall(W, op, self, child, name) ==
    /\ plan.calls < MaxCalls
    /\ theWorld' = W
    /\ plan' = [type |-> "children", calls |-> plan.calls + 1, op |-> op, self |-> self,
                child |-> child, name |-> name, before |-> AtCall]
    /\ UNCHANGED <<firstRun, gen, seed, notWorldVars>>

\* self.add_child(child, name)
AddChild(self, child, name) ==
    ChildCall(add_child(AtCall, self, child, name), "add_child", self, child, name)

\* self.remove_child(child)
RemoveChild(self, child) ==
    ChildCall(remove_child(AtCall, self, child), "remove_child", self, child, "")

ChildNext ==
    \/ \E self, child \in 1..MaxObjects, name \in {"", "x"} : AddChild(self, child, name)
    \/ \E self, child \in 1..MaxObjects : RemoveChild(self, child)

SpecChild == ChildInit /\ [][ChildNext]_vars

\* The names under which an object has children.
ChildNames(W, o) == {W.objs[o].children[i][1] : i \in DOMAIN W.objs[o].children}

\* The name add_child is to give: the name asked for, or else the name of the
\* child, and when that is taken, that name followed by the smallest integer
\* from 2 on that makes it free.
FreeName(taken, requested) ==
    IF requested \notin taken THEN requested
    ELSE LET free(i) == requested \o ToString(i) \notin taken
         IN requested \o ToString(CHOOSE i \in 2..(Cardinality(taken) + 2) :
                                      free(i) /\ \A j \in 2..(i - 1) : ~free(j))

\* C14: after any add_child and remove_child calls the names of the
\* children of a parent are distinct, the child under a name has that name
\* and that parent, an object is among the children of its parent only; and
\* an add_child whose name is taken gives the child the name followed by the
\* smallest integer from 2 on for which it is free.
ChildNaming ==
    plan.type = "children" =>
        /\ \A p \in DOMAIN theWorld.objs :
              LET children == theWorld.objs[p].children
              IN /\ \A i, j \in DOMAIN children : children[i][1] = children[j][1] => i = j
                 /\ \A i \in DOMAIN children :
                       /\ theWorld.objs[children[i][2]].name = children[i][1]
                       /\ theWorld.objs[children[i][2]].parent = p
        /\ \A c \in DOMAIN theWorld.objs :
              /\ Cardinality({p \in DOMAIN theWorld.objs :
                                 c \in Range(child_values(theWorld, p))}) <= 1
              /\ theWorld.objs[c].parent # 0
                    => c \in Range(child_values(theWorld, theWorld.objs[c].parent))
        /\ (plan.op = "add_child" /\ plan.before.objs[plan.child].parent # plan.self)
              => /\ ~raised(theWorld)
                 /\ theWorld.objs[plan.child].parent = plan.self
                 /\ theWorld.objs[plan.child].name =
                       FreeName(ChildNames(plan.before, plan.self),
                                IF plan.name # "" THEN plan.name
                                ELSE IF plan.before.objs[plan.child].name # ""
                                THEN plan.before.objs[plan.child].name ELSE "Game")

\* A third Game added to a parent that has Game and Game2 is named Game3.
ChildNamingWitness ==
    /\ plan.type = "children" /\ plan.op = "add_child" /\ plan.name = ""
    /\ theWorld.objs[plan.child].name = "Game3"
    /\ ChildNames(theWorld, plan.self) = {"Game", "Game2", "Game3"}

(***************************************************************************)
(* The calls a program makes on a GridMap: set_value on Width and Height.  *)
(***************************************************************************)
MaxSide == 3         \* Width and Height are 1..MaxSide
MaxResizes == 5      \* set_value calls of a behaviour

GridInit ==
    /\ StoreIdle
    /\ CondIdle
    /\ TreeIdle
    /\ firstRun = NoWorld /\ gen = [pc |-> "idle"] /\ seed = NoRng
    /\ theWorld = GridMap
    /\ plan = [type |-> "grid", calls |-> 0]

GridCall(W) ==
    /\ plan.calls < MaxResizes
    /\ theWorld' = W
    /\ plan' = [plan EXCEPT !.calls = @ + 1]
    /\ UNCHANGED <<firstRun, gen, seed, notWorldVars>>

\* map.Width.set_value(value)
SetWidth(value) ==
    GridCall(set_value(AtCall, dict_get(theWorld.objs[1].children, "Width", 0), value))

\* map.Height.set_value(value)
SetHeight(value) ==
    GridCall(set_value(AtCall, dict_get(theWorld.objs[1].children, "Height", 0), value))

GridNext ==
    \/ \E value \in 1..MaxSide : SetWidth(value)
    \/ \E value \in 1..MaxSide : SetHeight(value)

SpecGrid == GridInit /\ [][GridNext]_vars

\* The cells a map of the given width and height has.
Rectangle(width, height) == {<<x, y>> : x \in 0..(width - 1), y \in 0..(height - 1)}

\* C16: grid resize.  After any set_value calls on Width and Height, once both
\* are known the attributes (x, y) of the map are those of the rectangle
\* Width x Height, each a position with these coordinates, and the children
\* of the map besides Width and Height are these positions under the names
\* str((x, y)); before both are known the map has no cell.  No call raises.
GridResize ==
    plan.type = "grid" =>
        LET map == theWorld.objs[1]
            Width == theWorld.objs[dict_get(map.children, "Width", 0)]
            Height == theWorld.objs[dict_get(map.children, "Height", 0)]
            cells == IF Width.known /\ Height.known
                     THEN Rectangle(Width.value, Height.value) ELSE {}
        IN /\ ~raised(theWorld)
           /\ {map.attrs[i][1] : i \in DOMAIN map.attrs} = cells
           /\ {map.children[i][1] : i \in DOMAIN map.children}
                 = {"Width", "Height"} \cup {str(c[1], c[2]) : c \in cells}
           /\ Len(map.children) = 2 + Cardinality(cells)
           /\ Len(map.attrs) = Cardinality(cells)
           /\ \A c \in cells :
                 LET cell == dict_get(map.attrs, c, 0)
                 IN /\ dict_get(map.children, str(c[1], c[2]), 0) = cell
                    /\ theWorld.objs[cell].kind = "PositionType"
                    /\ theWorld.objs[cell].parent = 1
                    /\ theWorld.objs[cell].name = str(c[1], c[2])
                    /\ theWorld.objs[cell].x = c[1] /\ theWorld.objs[cell].y = c[2]

\* A map of 2 x 3 that was wider: (1, 2) is a cell, and the position that was
\* the cell (2, 1) has no parent.
GridResizeWitness ==
    /\ plan.type = "grid"
    /\ dict_has(theWorld.objs[1].attrs, <<1, 2>>)
    /\ ~dict_has(theWorld.objs[1].attrs, <<2, 1>>)
    /\ \E o \in DOMAIN theWorld.objs :
          /\ theWorld.objs[o].kind = "PositionType" /\ theWorld.objs[o].parent = 0
          /\ theWorld.objs[o].x = 2 /\ theWorld.objs[o].y = 1

(***************************************************************************)
(* The calls a program makes on choices: an enum and a plain choice of a   *)
(* World are made, the enum deduces and has values eliminated.             *)
(***************************************************************************)
EnumValues == {"a", "b", "c"}

\* The tuples of different values.
RECURSIVE Tuples(_)
Tuples(set) ==
    {<<>>} \cup UNION {{<<x>> \o t : t \in Tuples(set \ {x})} : x \in set}

\* The world of the choice calls: the enum is Enum, the plain choice Plain.
ChoiceWorld(values, impossible_values, default) ==
    add_new(add_new(World, 1, "Enum", EnumChoice(0, values, impossible_values)),
            1, "Plain", Choice(default))

Enum == FirstObject
Plain == FirstObject + 1

ChoiceInit ==
    /\ StoreIdle
    /\ CondIdle
    /\ TreeIdle
    /\ firstRun = NoWorld /\ gen = [pc |-> "idle"]
    /\ \E values \in Tuples(EnumValues) :
          \E impossible_values \in Tuples(Range(values)), default \in {"", "a"} :
             /\ theWorld = ChoiceWorld(values, impossible_values, default)
             /\ \E order \in {t \in Tuples(Range(values)) : Len(t) = Len(values)} :
                   seed = [NoRng EXCEPT !.value = order]
    /\ plan = [type |-> "choice", op |-> "new", obj |-> 0, before |-> NoWorld]

ChoiceCall(W, op, obj) ==
    /\ theWorld' = W
    /\ plan' = [type |-> "choice", op |-> op, obj |-> obj, before |-> AtCall]
    /\ UNCHANGED <<firstRun, gen, seed, notWorldVars>>

\* choice.fast_deduce()
FastDeduce(choice) == ChoiceCall(fast_deduce(AtCall, choice, <<>>), "fast_deduce", choice)

\* choice.make()
Make(choice) == ChoiceCall(make(AtCall, choice, seed), "make", choice)

\* choice.eliminate(token)
Eliminate(choice, token) ==
    /\ token \in Range(theWorld.objs[choice].values)
    /\ ChoiceCall(eliminate(AtCall, choice, token), "eliminate", choice)

ChoiceNext ==
    \/ \E choice \in {Enum, Plain} : FastDeduce(choice)
    \/ \E choice \in {Enum, Plain} : Make(choice)
    \/ \E token \in EnumValues : Eliminate(Enum, token)

SpecChoice == ChoiceInit /\ [][ChoiceNext]_vars

\* The values of an enum that are not impossible, in the order of values.
Possible(r) == Except(r.values, Range(r.impossible_values))

\* C17: EnumChoice.fast_deduce sets the enum to the one value that is not
\* impossible and makes it known, raises LogicError and changes nothing when
\* every value is impossible, and leaves the enum as it is when two or more
\* values are possible.
EnumFastDeduce ==
    (plan.type = "choice" /\ plan.op = "fast_deduce" /\ plan.obj = Enum) =>
        LET before == plan.before.objs[Enum]
            after == theWorld.objs[Enum]
        IN /\ Len(Possible(before)) = 1 =>
                 /\ ~raised(theWorld)
                 /\ after.known /\ after.value = Possible(before)[1]
                 /\ after.values = before.values
                 /\ after.impossible_values = before.impossible_values
           /\ Len(Possible(before)) = 0 =>
                 /\ theWorld.err = "LogicError"
                 /\ theWorld.objs = plan.before.objs
           /\ Len(Possible(before)) >= 2 =>
                 /\ ~raised(theWorld)
                 /\ theWorld.objs = plan.before.objs

\* An enum of one value is known after its first fast_deduce, and so is an
\* enum of three values after two of them were eliminated.
EnumFastDeduceWitness ==
    /\ plan.type = "choice" /\ plan.op = "fast_deduce" /\ plan.obj = Enum
    /\ theWorld.objs[Enum].known
    /\ ~plan.before.objs[Enum].known
    /\ Len(theWorld.objs[Enum].values) = 3
    /\ theWorld.objs[Enum].value = theWorld.objs[Enum].values[2]

\* The choice a make() call is about has no value, strategy or default.
MakeWithoutDefault ==
    /\ plan.type = "choice" /\ plan.op = "make"
    /\ ~plan.before.objs[plan.obj].known
    /\ plan.before.objs[plan.obj].strategy = ""
    /\ plan.before.objs[plan.obj].default = ""

\* C18 as stated: make() on a choice that is not known and has neither a
\* strategy nor a default fails with LogicError and leaves the choice unknown.
MakeFailsWithLogicError ==
    MakeWithoutDefault =>
        /\ theWorld.err = "LogicError"
        /\ ~theWorld.objs[plan.obj].known

\* C18: make() on a choice that is not known and has neither a strategy nor a
\* default fails with ValueError, a usage error, and changes nothing: the
\* choice stays unknown.
MakeFailsWithValueError ==
    MakeWithoutDefault =>
        /\ theWorld.err = "ValueError"
        /\ ~theWorld.objs[plan.obj].known
        /\ theWorld.objs = plan.before.objs

\* make() was called on the plain choice, which has no default.
MakeFailsWitness ==
    /\ MakeWithoutDefault /\ plan.obj = Plain
    /\ raised(theWorld)
    /\ ~theWorld.objs[Plain].known

(***************************************************************************)
(* The calls a program makes on vertices: the vertices A, B and C of a     *)
(* World get their conditions by assignment or by substitute(), before or  *)
(* after generation has started, and the world deduces object by object.   *)
(***************************************************************************)
NumCycle == 3    \* the vertices a program adds to the world

\* The world of the vertex calls.
RECURSIVE VertexWorld(_)
VertexWorld(n) ==
    IF n = 0 THEN World
    ELSE add_new(VertexWorld(n - 1), 1, "V" \o ToString(n), Vertex(FirstObject + n - 1, 0))

UserVertices == FirstObject..(FirstObject + NumCycle - 1)

\* The permutations of a set, as sequences.
Orders(set) ==
    {order \in [1..Cardinality(set) -> set] : \A x \in set : \E i \in DOMAIN order : order[i] = x}

Pairs == {p \in UserVertices \X UserVertices : p[1] < p[2]}

\* The conditions a behaviour gives to vertices: a vertex, all of two vertices
\* or any of two vertices.
Conditions(shape) ==
    IF shape = "vertex" THEN {VertexCondition(w) : w \in UserVertices}
    ELSE IF shape = "all"
    THEN {And(<<VertexObject(p[1]), VertexObject(p[2])>>) : p \in Pairs}
    ELSE {Or(<<VertexObject(p[1]), VertexObject(p[2])>>) : p \in Pairs}

VertexInit ==
    /\ StoreIdle
    /\ CondIdle
    /\ TreeIdle
    /\ firstRun = NoWorld /\ gen = [pc |-> "idle"] /\ seed = NoRng
    /\ theWorld = VertexWorld(NumCycle)
    /\ \E slot \in {"exact", "necessary", "sufficient"}, shape \in {"vertex", "all", "any"} :
          plan = [type |-> "vertices", slot |-> slot, shape |-> shape,
                  given |-> [v \in UserVertices |-> NoResult]]

Started == theWorld.objs[1].started_generation
Queue == theWorld.objs[1].fast_deduction_objects

\* The program calls before generation, from the fast_deduce of one of its
\* vertices, or when the world has deduced.
AtProgram == IF Queue = <<>> THEN TRUE ELSE Queue[1] \in UserVertices

VertexCall(W) ==
    /\ ~raised(theWorld)
    /\ theWorld' = W
    /\ UNCHANGED <<firstRun, gen, seed, notWorldVars>>

\* plan.given keeps the condition the program gave to each vertex.
Give(v, condition) ==
    /\ AtProgram
    /\ plan.given[v] = NoResult
    /\ plan' = [plan EXCEPT !.given[v] = condition]

\* vertex.condition = condition
SetCondition(v, condition) ==
    /\ plan.slot = "exact"
    /\ Give(v, condition)
    /\ VertexCall(set_condition(AtCall, v, condition))

\* vertex.substitute(name, condition)
Substitute(v, condition) ==
    /\ Give(v, condition)
    /\ VertexCall(vertex_substitute(AtCall, v, plan.slot, condition))

\* WorldType.generate up to world.deduce()
StartGeneration ==
    /\ ~Started
    /\ VertexCall(generate_start(AtCall, 1))
    /\ UNCHANGED plan

\* vertex.mark_fast_deduction()
Mark(v) ==
    /\ Started /\ Queue = <<>>
    /\ VertexCall(mark_fast_deduction(AtCall, v))
    /\ UNCHANGED plan

\* WorldType.deduce: one turn of its loop
Deduce(order) ==
    /\ Queue # <<>>
    /\ VertexCall(deduce_step(AtCall, 1, order))
    /\ UNCHANGED plan

VertexNext ==
    \/ \E v \in UserVertices : \E condition \in Conditions(plan.shape) : SetCondition(v, condition)
    \/ \E v \in UserVertices : \E condition \in Conditions(plan.shape) : Substitute(v, condition)
    \/ StartGeneration
    \/ \E v \in UserVertices : Mark(v)
    \/ \E order \in Orders(UserVertices) : Deduce(order)

SpecVertex == VertexInit /\ [][VertexNext]_vars

\* The pairs <<v, w>> of vertices with w among the necessary vertices of v.
NecessaryEdges ==
    {e \in UserVertices \X UserVertices : e[2] \in Range(necessary_of(theWorld, e[1]))}

\* The pairs <<v, w>> of vertices with w among the sufficient vertices of v.
SufficientEdges ==
    {e \in UserVertices \X UserVertices : e[2] \in Range(sufficient_of(theWorld, e[1]))}

\* The pairs joined by a path of one or more edges.
Paths(edges) ==
    LET F[n \in 0..NumCycle] ==
            IF n = 0 THEN edges
            ELSE F[n - 1] \cup {e \in UserVertices \X UserVertices :
                                  \E b \in UserVertices : <<e[1], b>> \in F[n - 1]
                                                          /\ <<b, e[2]>> \in edges}
    IN F[NumCycle]

OnCycle(edges, v) == <<v, v>> \in Paths(edges)

\* The world has deduced: generation has started, each vertex of the program
\* has had its fast_deduce, and the queue is empty.
Deduced ==
    /\ Started /\ Queue = <<>> /\ ~raised(theWorld)
    /\ \A v \in UserVertices : theWorld.objs[v].condition_fixed

\* C6: once the queue has run to empty, each vertex on a cycle of necessary
\* vertices is known and not accessible, whatever the order of deduction and
\* whether the conditions were assigned or came through substitute().
NecessityCycles ==
    Deduced => \A v \in UserVertices :
                  OnCycle(NecessaryEdges, v)
                     => theWorld.objs[v].is_known /\ ~theWorld.objs[v].known_access

\* The pairs <<v, w>> with w among the sufficient vertices of the condition
\* the program gave to v.
GivenSufficientEdges ==
    {e \in UserVertices \X UserVertices :
        /\ plan.slot # "necessary"
        /\ plan.given[e[1]] # NoResult
        /\ e[2] \in Range(find_sufficient_vertices(plan.given[e[1]]))}

\* The vertices of a set form a cycle: each reaches each, itself included, by
\* a path of edges; and no larger set does.
IsCycle(edges, set) ==
    LET joined(s) == s # {} /\ \A v, w \in s : <<v, w>> \in Paths(edges)
    IN /\ joined(set)
       /\ \A more \in SUBSET UserVertices : (set \subseteq more /\ joined(more)) => more = set

RECURSIVE Holds(_, _)
\* The truth of a condition when exactly the vertices of a set are accessible;
\* a placeholder stands for nothing.
Holds(c, accessible) ==
    CASE c.op = "TrueCondition" -> TRUE
      [] c.op = "VertexCondition" -> c.vertex \in accessible
      [] c.op = "AtLeastCondition" ->
            Cardinality({i \in DOMAIN c.conditions : Holds(c.conditions[i], accessible)})
               >= c.count
      [] OTHER -> FALSE

\* The condition of a vertex that the program gives under the name plan.slot.
Slot(v) ==
    IF plan.slot = "exact" THEN theWorld.objs[v].condition
    ELSE IF plan.slot = "necessary" THEN theWorld.objs[v].necessary_condition
    ELSE theWorld.objs[v].sufficient_condition

\* b is the base of the vertices of a set: following equivalent_to, the others
\* end where b ends, and the condition of b is the disjunction of the
\* conditions given to them with each of them replaced by False.
IsBase(b, set) ==
    /\ \A v \in set \ {b} : /\ theWorld.objs[v].equivalent_to # 0
                            /\ resolve(theWorld, v, NumCycle) = resolve(theWorld, b, NumCycle)
    /\ \A accessible \in SUBSET UserVertices :
          Holds(Slot(b), accessible)
             <=> \E v \in set : Holds(plan.given[v], accessible \ set)

\* C7: once the queue has run to empty, the vertices of a cycle of sufficient
\* vertices, none of them known, have one base vertex among them that the
\* others reach by equivalent_to, and its conditions are the disjunction of
\* theirs with each reference to one of them replaced by False.
SufficiencyCycles ==
    Deduced => \A set \in SUBSET UserVertices :
                  (IsCycle(GivenSufficientEdges, set)
                      /\ \A v \in set : ~theWorld.objs[v].is_known)
                     => \E b \in set : IsBase(b, set)

(***************************************************************************)
(* Assignments to vertex.condition, before and after the fast_deduce of    *)
(* the vertex.                                                             *)
(***************************************************************************)
MaxAssign == 3    \* assignments to a condition in one behaviour

\* The conditions a program assigns.
Assigned == {TrueCondition, FalseCondition} \cup {VertexCondition(w) : w \in UserVertices}

\* plan.deduced are the vertices that have had fast_deduce.
FixedInit ==
    /\ StoreIdle
    /\ CondIdle
    /\ TreeIdle
    /\ firstRun = NoWorld /\ gen = [pc |-> "idle"] /\ seed = NoRng
    /\ theWorld = VertexWorld(NumCycle)
    /\ plan = [type |-> "fixed", op |-> "new", obj |-> 0, condition |-> NoResult,
               before |-> NoWorld, deduced |-> {}, calls |-> 0]

FixedCall(W, op, obj, condition) ==
    /\ theWorld.err # "hang"
    /\ theWorld' = W
    /\ plan' = [plan EXCEPT !.op = op, !.obj = obj, !.condition = condition, !.before = AtCall,
                            !.deduced = IF op = "fast_deduce" THEN @ \cup {obj} ELSE @,
                            !.calls = IF op = "assign" THEN @ + 1 ELSE @]
    /\ UNCHANGED <<firstRun, gen, seed, notWorldVars>>

\* vertex.condition = condition
Assign(v, condition) ==
    /\ plan.calls < MaxAssign
    /\ FixedCall(set_condition(AtCall, v, condition), "assign", v, condition)

\* WorldType.generate up to world.deduce()
FixedStart ==
    /\ ~Started
    /\ FixedCall(generate_start(AtCall, 1), "start", 0, NoResult)

\* WorldType.deduce: one turn of its loop
FixedDeduce(order) ==
    /\ Queue # <<>>
    /\ FixedCall(deduce_step(AtCall, 1, order), "fast_deduce", Queue[1], NoResult)

FixedNext ==
    \/ \E v \in UserVertices, condition \in Assigned : Assign(v, condition)
    \/ FixedStart
    \/ \E order \in Orders(UserVertices) : FixedDeduce(order)

SpecFixed == FixedInit /\ [][FixedNext]_vars

\* C20: a vertex has condition_fixed exactly when it has had fast_deduce.  An
\* assignment to the condition of a vertex that has not had it replaces the
\* condition; after it the assignment raises and changes nothing, unless the
\* stored condition is the 'exact' placeholder bound to the vertex, and then
\* it does what substitute('exact', condition) does: the condition becomes
\* the one assigned.
ConditionFixed ==
    /\ \A v \in UserVertices : theWorld.objs[v].condition_fixed <=> v \in plan.deduced
    /\ plan.op = "assign" =>
          LET B == plan.before
              v == plan.obj
              c == plan.condition
              fixed == B.objs[v].condition_fixed
              untouched == B.objs[v].condition = PlaceholderCondition("exact", v)
          IN /\ ~fixed => /\ ~raised(theWorld)
                          /\ theWorld.objs[v].condition = set_base(c, v)
             /\ fixed /\ ~untouched => /\ raised(theWorld)
                                       /\ theWorld.objs = B.objs
             /\ fixed /\ untouched =>
                   /\ theWorld = vertex_substitute(B, v, "exact", c)
                   /\ ~raised(theWorld)
                   /\ theWorld.objs[resolve(B, v, Len(B.objs))].condition = set_base(c, v)

\* An assignment to a vertex that had fast_deduce with a condition of its own
\* was rejected.
ConditionFixedWitness ==
    /\ plan.op = "assign" /\ raised(theWorld)
    /\ plan.before.objs[plan.obj].condition_fixed
    /\ plan.before.objs[plan.obj].condition # PlaceholderCondition("exact", plan.obj)

\* An assignment to a vertex that had fast_deduce with the placeholder went
\* through substitute.
AssignedThroughSubstitute ==
    /\ plan.op = "assign" /\ ~raised(theWorld)
    /\ plan.before.objs[plan.obj].condition_fixed
    /\ theWorld.objs[plan.obj].condition = VertexCondition(plan.obj + 1)


RECURSIVE ChainEnd(_, _, _, _)
\* Where the chain of equivalent_to links from eq ends for the vertex self in
\* the world B: at self, at a known vertex, or at a vertex with no link.
ChainEnd(B, self, eq, fuel) ==
    IF fuel = 0 THEN [at |-> "none", vertex |-> 0]
    ELSE IF eq = self THEN [at |-> "self", vertex |-> eq]
    ELSE IF B.objs[eq].is_known THEN [at |-> "known", vertex |-> eq]
    ELSE IF B.objs[eq].equivalent_to = 0 THEN [at |-> "end", vertex |-> eq]
    ELSE ChainEnd(B, self, B.objs[eq].equivalent_to, fuel - 1)

\* The vertex to which the fast_deduce of v makes v equivalent in the world
\* B, 0 when it does not: that of its simplified condition when v has no
\* link, and its link when that has a link of its own.
MadeEquivalentTo(B, v) ==
    LET r == B.objs[v]
        eq == r.equivalent_to
        simplified == simplify(B.objs, r.condition)
    IN IF r.is_known THEN 0
       ELSE IF eq # 0
       THEN (IF ~B.objs[eq].is_known /\ B.objs[eq].equivalent_to # 0 THEN eq ELSE 0)
       ELSE IF simplified \notin {TrueCondition, FalseCondition}
               /\ simplified.op = "VertexCondition"
       THEN simplified.vertex
       ELSE 0

\* The vertices reached from v by one or more equivalent_to links, in at most
\* n steps.
RECURSIVE Linked(_, _)
Linked(v, n) ==
    IF n = 0 \/ theWorld.objs[v].equivalent_to = 0 THEN {}
    ELSE {theWorld.objs[v].equivalent_to} \cup Linked(theWorld.objs[v].equivalent_to, n - 1)

\* C27: a vertex made equivalent to v2 becomes known not accessible, with no
\* link, when the chain of links from v2 reaches the vertex itself; known
\* with the known_access of the known vertex the chain reaches; and linked
\* to the end of the chain otherwise.  No vertex reaches itself by links.
BecomingEquivalent ==
    /\ \A v \in UserVertices : v \notin Linked(v, NumCycle + 1)
    /\ (plan.type = "fixed" /\ plan.op = "fast_deduce" /\ plan.obj \in UserVertices
          /\ MadeEquivalentTo(plan.before, plan.obj) # 0) =>
          LET B == plan.before
              v == plan.obj
              end == ChainEnd(B, v, MadeEquivalentTo(B, v), NumCycle + 1)
              now == theWorld.objs[v]
          IN /\ ~raised(theWorld)
             /\ end.at = "self" =>
                   now.is_known /\ ~now.known_access /\ now.equivalent_to = 0
             /\ end.at = "known" =>
                   /\ now.is_known /\ now.equivalent_to = 0
                   /\ now.known_access = B.objs[end.vertex].known_access
             /\ end.at = "end" => ~now.is_known /\ now.equivalent_to = end.vertex
             /\ end.at # "none"

\* A vertex was linked to the end of a chain of two links.
BecomingEquivalentWitness ==
    /\ plan.type = "fixed" /\ plan.op = "fast_deduce" /\ plan.obj \in UserVertices
    /\ MadeEquivalentTo(plan.before, plan.obj) # 0
    /\ ChainEnd(plan.before, plan.obj, MadeEquivalentTo(plan.before, plan.obj), NumCycle + 1).at
          = "end"
    /\ theWorld.objs[plan.obj].equivalent_to # MadeEquivalentTo(plan.before, plan.obj)

\* The chain came back to the vertex.
ChainToSelf ==
    /\ plan.type = "fixed" /\ plan.op = "fast_deduce" /\ plan.obj \in UserVertices
    /\ MadeEquivalentTo(plan.before, plan.obj) # 0
    /\ ChainEnd(plan.before, plan.obj, MadeEquivalentTo(plan.before, plan.obj), NumCycle + 1).at
          = "self"

\* The chain reached a known vertex.
ChainToKnown ==
    /\ plan.type = "fixed" /\ plan.op = "fast_deduce" /\ plan.obj \in UserVertices
    /\ MadeEquivalentTo(plan.before, plan.obj) # 0
    /\ ChainEnd(plan.before, plan.obj, MadeEquivalentTo(plan.before, plan.obj), NumCycle + 1).at
          = "known"


\* x.updated() was the last step of the assignment to the vertex plan.obj,
\* made after generation started.
AfterUpdated ==
    /\ plan.type = "fixed" /\ plan.op = "assign" /\ ~raised(theWorld)
    /\ plan.before.objs[1].started_generation
    /\ plan.before.objs[plan.obj].equivalent_to = 0

\* y is in x._dependencies iff x is in y._dependents.
MutuallyInverse ==
    \A x, y \in DOMAIN theWorld.objs :
        (IsVertex(theWorld, x) /\ IsVertex(theWorld, y)) =>
            (y \in theWorld.objs[x].dependencies <=> x \in Range(theWorld.objs[y].dependents))

\* What holds after x.updated(): the objects that were dependents of x when
\* it was called are queued, and x._dependencies is collect_dependencies().
DependenciesRefreshed ==
    AfterUpdated =>
        /\ \A y \in Range(plan.before.objs[plan.obj].dependents) : y \in Range(Queue)
        /\ theWorld.objs[plan.obj].dependencies = collect_dependencies(theWorld, plan.obj)

\* C28 as stated: after x.updated() in a world that has started generation
\* every object in x._dependents is queued and x._dependencies is
\* collect_dependencies(); the two maps are inverse in every state.
DependencyTracking ==
    /\ MutuallyInverse
    /\ AfterUpdated =>
          /\ \A y \in Range(theWorld.objs[plan.obj].dependents) : y \in Range(Queue)
          /\ theWorld.objs[plan.obj].dependencies = collect_dependencies(theWorld, plan.obj)

(***************************************************************************)
(* WorldType.generate, step by step: the start, each turn of deduce, the   *)
(* collection of the choices, each choice made.  A behaviour runs generate *)
(* twice on the same world with the same seed.                             *)
(***************************************************************************)
P == FirstObject
Q == FirstObject + 1

\* A world with a port P that needs two connections to one port and a port Q
\* that takes one.
TwoPortWorld ==
    add_new(add_new(World, 1, "P", Port("PortType", 0, 2, 1, 2, 1, "RandomPortStrategy")),
            1, "Q", Port("PortType", 0, 1, 1, 1, 1, "RandomPortStrategy"))

\* A world with vertices V1 = Any(V2, V3) and V2 = Any(V1, V3).
CycleWorld ==
    LET V1 == FirstObject
        V2 == FirstObject + 1
        V3 == FirstObject + 2
    IN set_condition(set_condition(VertexWorld(NumCycle), V1,
                                   Or(<<VertexObject(V2), VertexObject(V3)>>)),
                     V2, Or(<<VertexObject(V1), VertexObject(V3)>>))

GenWorlds ==
    {TwoPortWorld, CycleWorld,
     ChoiceWorld(<<"a">>, <<"a">>, "a"), ChoiceWorld(<<"a", "b">>, <<>>, "a"),
     ChoiceWorld(<<"a", "b">>, <<>>, "")}

\* The random sources that differ on a world with these choices, ports and
\* values of enums.
SeedsOver(choices, ports, values) ==
    {[order |-> o, connection |-> c, commit |-> b, value |-> v] :
        o \in Orders(choices), c \in Orders(ports), b \in {TRUE, FALSE}, v \in Orders(values)}

EnumsOf(W) == {o \in DOMAIN W.objs : W.objs[o].kind = "EnumChoiceType"}

Seeds(W) ==
    SeedsOver({o \in DOMAIN W.objs : IsChoice(W, o)}, {o \in DOMAIN W.objs : IsPort(W, o)},
              UNION {Range(W.objs[o].values) : o \in EnumsOf(W)})

\* gen.trace lists the fast_deduce calls and the choices made, gen.cause is
\* the exception that ended the run as it was raised.
GenStart(run) ==
    [pc |-> "idle", run |-> run, choices |-> <<>>, choices_made |-> <<>>, trace |-> <<>>,
     cause |-> ""]

GenInit ==
    /\ StoreIdle
    /\ CondIdle
    /\ TreeIdle
    /\ firstRun = NoWorld
    /\ gen = GenStart(1)
    /\ \E W \in GenWorlds :
          /\ theWorld = W
          /\ seed \in Seeds(W)
          /\ plan = [type |-> "generate", self |-> W, first |-> GenStart(1)]

\* The step of generate that gave the world W ends in position pc, or with
\* the exception of W.
GenStep(W, pc, choices, event) ==
    /\ theWorld' = W
    /\ gen' = [gen EXCEPT !.pc = IF raised(W) THEN "raised" ELSE pc,
                          !.choices = choices,
                          !.trace = IF event = <<>> THEN @ ELSE Append(@, event)]
    /\ UNCHANGED <<firstRun, seed, plan, notWorldVars>>

\* world = self.fork(), started_generation and the marking of every object
Generate ==
    /\ gen.pc = "idle"
    /\ GenStep(generate_start(theWorld, 1), "deduce", <<>>, <<>>)

\* A turn of world.deduce() gave W; the call that follows a choice turns a
\* LogicError into another exception.
DeduceStep(W) ==
    /\ theWorld' = IF W.err = "LogicError" /\ \E i \in DOMAIN gen.trace : gen.trace[i][1] = "make"
                   THEN [W EXCEPT !.err = "Exception"] ELSE W
    /\ gen' = [gen EXCEPT !.pc = IF raised(W) THEN "raised" ELSE "deduce",
                          !.trace = Append(@, <<"fast_deduce", Queue[1], "">>),
                          !.cause = W.err]
    /\ UNCHANGED <<firstRun, seed, plan, notWorldVars>>

\* world.deduce(): one turn of its loop
DeduceTurn(order) ==
    /\ gen.pc = "deduce" /\ Queue # <<>>
    /\ DeduceStep(deduce_step(theWorld, 1, order))

\* world.deduce() returns; the choices are collected when there are none.
Collect ==
    /\ gen.pc = "deduce" /\ Queue = <<>>
    /\ GenStep(theWorld, "choose",
               IF gen.choices = <<>> THEN collect_choices(theWorld, 1, seed) ELSE gen.choices,
               <<>>)

\* if choice.known: choices.pop(-1)
Pop ==
    /\ gen.pc = "choose" /\ gen.choices # <<>>
    /\ theWorld.objs[Last(gen.choices)].known
    /\ GenStep(theWorld, IF Len(gen.choices) = 1 THEN "deduce" ELSE "choose",
               Front(gen.choices), <<>>)

\* saved_state = world.fork(); token = choice.make() gave the snapshot
\* made.saved_state and the world made.world with the token made.world.ret;
\* choices_made.append((saved_state, choice_path, token)) when make returned.
Made(made) ==
    /\ theWorld' = [made.world EXCEPT !.ret = FALSE]
    /\ gen' = [gen EXCEPT !.pc = IF raised(made.world) THEN "raised" ELSE "deduce",
                          !.trace = Append(@, <<"make", Last(gen.choices), made.world.ret>>),
                          !.choices_made =
                              IF raised(made.world) THEN @
                              ELSE Append(@, [saved_state |-> made.saved_state,
                                              choice_path |-> Last(gen.choices),
                                              token |-> made.world.ret])]
    /\ UNCHANGED <<firstRun, seed, plan, notWorldVars>>

\* token = choice.make()
MakeChoice ==
    /\ gen.pc = "choose" /\ gen.choices # <<>>
    /\ ~theWorld.objs[Last(gen.choices)].known
    /\ Made(fork_and_make(theWorld, Last(gen.choices), seed))

\* if not choices: break; return world
ReturnWorld ==
    /\ gen.pc = "choose" /\ gen.choices = <<>>
    /\ GenStep(theWorld, "returned", <<>>, <<>>)

\* The second run of self.generate(seed)
GenerateAgain ==
    /\ gen.pc \in {"returned", "raised"} /\ gen.run = 1
    /\ firstRun' = theWorld
    /\ theWorld' = plan.self
    /\ plan' = [plan EXCEPT !.first = gen]
    /\ gen' = GenStart(2)
    /\ UNCHANGED <<seed, notWorldVars>>

GenNext ==
    \/ Generate
    \/ \E order \in Orders(UserVertices) : DeduceTurn(order)
    \/ Collect
    \/ Pop
    \/ MakeChoice
    \/ ReturnWorld
    \/ GenerateAgain

SpecGen == GenInit /\ [][GenNext]_vars

\* C2: when generate returns, every choice among the descendants of the
\* world it returns is known.
EveryChoiceKnown ==
    gen.pc = "returned" =>
        \A o \in Range(descendants(theWorld, 1)) : IsChoice(theWorld, o) => theWorld.objs[o].known

\* generate returned a world in which it made a choice that is a child of
\* the world and one that is not.
EveryChoiceKnownWitness ==
    /\ gen.pc = "returned"
    /\ \E i, j \in DOMAIN gen.trace :
          /\ gen.trace[i][1] = "make" /\ theWorld.objs[gen.trace[i][2]].parent = 1
          /\ gen.trace[j][1] = "make" /\ theWorld.objs[gen.trace[j][2]].parent # 1

\* C3 as stated: two runs of generate with the same seed on the same world
\* make the same fast_deduce calls and the same choices with the same values
\* in the same order, and return worlds that are equal attribute by attribute.
Determinism ==
    (gen.run = 2 /\ gen.pc = "returned" /\ plan.first.pc = "returned") =>
        /\ gen.trace = plan.first.trace
        /\ theWorld.objs = firstRun.objs

\* Both runs returned after the same calls and choices.
DeterminismCase ==
    /\ gen.run = 2 /\ gen.pc = "returned" /\ plan.first.pc = "returned"
    /\ gen.trace = plan.first.trace
    /\ theWorld.objs # firstRun.objs

\* C4 as stated: when a fast_deduce raises LogicError, in the first deduce or
\* in a deduce that follows a choice, the caller of generate gets LogicError.
LogicErrorSurfaces ==
    (gen.pc = "raised" /\ gen.cause = "LogicError") => theWorld.err = "LogicError"

\* ... which holds of the first deduce.
LogicErrorSurfacesAtFirst ==
    (gen.pc = "raised" /\ gen.cause = "LogicError"
       /\ \A i \in DOMAIN gen.trace : gen.trace[i][1] # "make") => theWorld.err = "LogicError"


\* The unknown choices among the descendants of the world.
UnknownChoices ==
    {o \in Range(descendants(theWorld, 1)) : IsChoice(theWorld, o) /\ ~theWorld.objs[o].known}

\* A step of the choice loop.
ChoiceLoopStep ==
    /\ (gen.pc = "deduce" /\ Queue = <<>> /\ gen.choices = <<>>) =>
          /\ Range(gen'.choices) = UnknownChoices
          /\ Len(gen'.choices) = Cardinality(UnknownChoices)
          /\ \A i, j \in DOMAIN gen'.choices :
                i < j => Index0(seed.order, gen'.choices[i]) < Index0(seed.order, gen'.choices[j])
    /\ (gen.pc = "choose" /\ gen.choices # <<>>) =>
          LET choice == gen.choices[Len(gen.choices)]
          IN IF theWorld.objs[choice].known
             THEN /\ theWorld' = theWorld
                  /\ gen'.choices = SubSeq(gen.choices, 1, Len(gen.choices) - 1)
                  /\ gen'.choices_made = gen.choices_made /\ gen'.trace = gen.trace
             ELSE /\ gen'.trace = Append(gen.trace, <<"make", choice, gen'.trace[Len(gen'.trace)][3]>>)
                  /\ gen'.pc # "raised" =>
                        /\ Len(gen'.choices_made) = Len(gen.choices_made) + 1
                        /\ gen'.choices_made[Len(gen'.choices_made)]
                              = [saved_state |-> theWorld, choice_path |-> choice,
                                 token |-> gen'.trace[Len(gen'.trace)][3]]
    /\ \A i \in DOMAIN gen.choices_made :
          /\ i \in DOMAIN gen'.choices_made \/ gen'.pc = "idle"
          /\ i \in DOMAIN gen'.choices_made => gen'.choices_made[i] = gen.choices_made[i]

\* C24: the choices collected are the unknown choices among the descendants,
\* in the order of their seeded keys, and the driver takes the last; one that
\* is known is dropped, with no snapshot and no make; for any other the
\* driver forks, makes the choice and records (saved_state, choice_path,
\* token), where saved_state is the world as it was when the choice was not
\* made, and no later step changes a recorded entry.
ChoiceLoop ==
    /\ [][ChoiceLoopStep]_vars
    /\ [](\A i \in DOMAIN gen.choices_made :
            LET made == gen.choices_made[i]
            IN /\ IsChoice(made.saved_state, made.choice_path)
               /\ ~made.saved_state.objs[made.choice_path].known
               /\ ~raised(made.saved_state))

\* Two choices were made and recorded, the deductions after them are over,
\* and the first snapshot differs from the world: the choice of its entry is
\* known in the world.
ChoiceLoopWitness ==
    /\ gen.pc = "returned" /\ Len(gen.choices_made) >= 2
    /\ theWorld.objs[gen.choices_made[1].choice_path].known
    /\ gen.choices_made[1].saved_state.objs # gen.choices_made[2].saved_state.objs

\* A choice that had become known was dropped from the collected choices.
ChoiceDropped ==
    /\ gen.pc = "choose" /\ gen.choices # <<>> /\ gen.choices_made # <<>>
    /\ Len(gen.trace) >= 1 /\ gen.trace[Len(gen.trace)][1] # "make"
    /\ \E i \in DOMAIN gen.choices_made : gen.choices_made[i].choice_path \notin Range(gen.choices)

(***************************************************************************)
(* The fast-deduction queue: WorldType.fast_deduction_objects is a         *)
(* BranchingOrderedDictionary, mark_fast_deduction stores into it and      *)
(* WorldType.deduce takes objects out with popitem.  plan.stamp is the     *)
(* number of the call in which an object came into the queue (0: it is not *)
(* queued), plan.at the stamp the popped object had.                       *)
(***************************************************************************)
MaxMarks == 2    \* calls of mark_fast_deduction by the program in one behaviour

\* V3 is popped before V2, on which it depends; the fast_deduce of V2 changes
\* V2 and marks V3, which is not queued any more.
ChainWorld ==
    LET V1 == FirstObject
        V2 == FirstObject + 1
        V3 == FirstObject + 2
    IN set_condition(set_condition(VertexWorld(NumCycle), V3, VertexCondition(V2)),
                     V2, VertexCondition(V1))

QueueWorlds == {CycleWorld, ChainWorld}

NoStamp(W) == [o \in DOMAIN W.objs |-> 0]

QueueInit ==
    /\ StoreIdle
    /\ CondIdle
    /\ TreeIdle
    /\ firstRun = NoWorld /\ gen = [pc |-> "idle"] /\ seed = NoRng
    /\ theWorld \in QueueWorlds
    /\ plan = [type |-> "queue", op |-> "new", obj |-> 0, queue |-> <<>>,
               stamp |-> NoStamp(theWorld), at |-> 0, clock |-> 0, marks |-> 0]

\* A call that gave the world W.  An object that is queued after the call
\* keeps its stamp when it was queued before and was not popped by the call.
QueueCall(W, op, obj) ==
    /\ ~raised(theWorld)
    /\ theWorld' = W
    /\ plan' = [type |-> "queue", op |-> op, obj |-> obj, queue |-> Queue,
                stamp |-> [o \in DOMAIN W.objs |->
                             IF o \notin Range(W.objs[1].fast_deduction_objects) THEN 0
                             ELSE IF o \in Range(Queue) /\ ~(op = "pop" /\ o = obj)
                             THEN plan.stamp[o]
                             ELSE plan.clock + 1],
                at |-> IF op = "pop" THEN plan.stamp[obj] ELSE 0,
                clock |-> plan.clock + 1,
                marks |-> IF op = "mark" THEN plan.marks + 1 ELSE plan.marks]
    /\ UNCHANGED <<firstRun, gen, seed, notWorldVars>>

\* WorldType.generate up to world.deduce()
QueueStart ==
    /\ ~Started
    /\ QueueCall(generate_start(AtCall, 1), "start", 0)

\* obj.mark_fast_deduction()
QueueMark(obj) ==
    /\ Started
    /\ plan.marks < MaxMarks
    /\ QueueCall(mark_fast_deduction(AtCall, obj), "mark", obj)

\* WorldType.deduce: one turn of its loop
QueuePop(order) ==
    /\ Queue # <<>>
    /\ QueueCall(deduce_step(AtCall, 1, order), "pop", popitem(Queue).key)

QueueNext ==
    \/ QueueStart
    \/ \E obj \in DOMAIN theWorld.objs : QueueMark(obj)
    \/ \E order \in Orders(UserVertices) : QueuePop(order)

SpecQueue == QueueInit /\ [][QueueNext]_vars

\* The objects of a list that are in a set come before those that are not.
ComeFirst(list, set) ==
    \A i, j \in DOMAIN list : (list[i] \in set /\ list[j] \notin set) => i < j

\* C22: the deduce loop takes the objects in the order in which they came
\* into the queue: the popped object is one that came first among the queued,
\* the objects that were already queued stay in front, in their order, of
\* those the fast_deduce marked, and marking an object that is queued leaves
\* the queue as it is.
FirstInsertedFirst ==
    plan.type = "queue" =>
        /\ \A i, j \in DOMAIN Queue : i < j => plan.stamp[Queue[i]] <= plan.stamp[Queue[j]]
        /\ plan.op = "pop" /\ ~raised(theWorld) =>
              /\ \A o \in Range(Queue) : plan.at <= plan.stamp[o]
              /\ \A o \in Range(plan.queue) \ {plan.obj} : plan.at <= plan.stamp[o]
              /\ ComeFirst(Queue, Range(plan.queue) \ {plan.obj})
              /\ Sorted(Range(plan.queue) \ {plan.obj}, Queue)
                    = Sorted(Range(plan.queue) \ {plan.obj}, plan.queue)
        /\ plan.op = "mark" /\ plan.obj \in Range(plan.queue) => Queue = plan.queue

\* A fast_deduce marked an object that was not queued, and it stands behind
\* the objects that were; a queued object was marked again.
FirstInsertedFirstWitness ==
    /\ plan.type = "queue" /\ plan.op = "pop" /\ ~raised(theWorld)
    /\ Len(plan.queue) >= 3
    /\ \E o \in Range(Queue) : o \notin Range(plan.queue) \/ o = plan.obj
    /\ \E o \in Range(Queue) : plan.stamp[o] > plan.at /\ plan.stamp[o] < plan.clock

MarkedAgain ==
    /\ plan.type = "queue" /\ plan.op = "mark"
    /\ plan.obj \in Range(plan.queue)
    /\ Len(plan.queue) >= 2 /\ plan.obj # plan.queue[Len(plan.queue)]

\* C23 as stated: each pop takes the object that came into the queue last.
LastInFirstOut ==
    (plan.type = "queue" /\ plan.op = "pop") =>
        \A o \in Range(plan.queue) \ {plan.obj} : plan.stamp[o] <= plan.at

\* C23: each pop takes the object at the head of the queue, the one that has
\* been queued longest, and its fast_deduce is over before the next pop: the
\* turn takes no other object out of the queue.
FirstInFirstOut ==
    (plan.type = "queue" /\ plan.op = "pop" /\ ~raised(theWorld)) =>
        /\ plan.obj = Head(plan.queue)
        /\ \A o \in Range(Tail(plan.queue)) : o \in Range(Queue)
        /\ SubSeq(Queue, 1, Len(plan.queue) - 1) = Tail(plan.queue)

\* A pop from a queue of objects that came in at different calls.
FirstInFirstOutWitness ==
    /\ plan.type = "queue" /\ plan.op = "pop" /\ ~raised(theWorld)
    /\ Len(plan.queue) >= 2
    /\ plan.stamp[plan.queue[Len(plan.queue)]] > plan.at
    /\ plan.queue[Len(plan.queue)] # plan.obj

(***************************************************************************)
(* Equal keys.  The key of a tag is rng(tag).random(); here seed gives the  *)
(* keys themselves, numbers in 0..MaxRandom, so that two tags can have the  *)
(* same key.  sort is stable, min returns the first least element it meets, *)
(* and the iteration of a set of ports goes by their addresses, in any      *)
(* order.                                                                   *)
(***************************************************************************)
MaxRandom == 1    \* the keys are 0..MaxRandom

\* Python's order of the names used here, least first.
NameOrder == <<"", "A", "B", "P", "Q", "R", "World", "start_port", "start_position">>

RECURSIVE path(_, _)
\* GameObjectType.path
path(W, o) ==
    IF W.objs[o].parent = 0 THEN <<W.objs[o].name>>
    ELSE Append(path(W, W.objs[o].parent), W.objs[o].name)

RECURSIVE TupleBefore(_, _, _)
\* p < q of two tuples of names, compared from position i on.
TupleBefore(p, q, i) ==
    IF i > Len(q) THEN FALSE
    ELSE IF i > Len(p) THEN TRUE
    ELSE IF p[i] = q[i] THEN TupleBefore(p, q, i + 1)
    ELSE Index0(NameOrder, p[i]) < Index0(NameOrder, q[i])

\* The path of o is before the path of c in lexicographic order.
PathBefore(W, o, c) == TupleBefore(path(W, o), path(W, c), 1)

RECURSIVE sort(_, _, _)
\* list.sort(key=...): a stable sort; the first i elements of the list go,
\* one by one, behind the elements of the result with a key that is not
\* greater.
sort(list, key, i) ==
    IF i = 0 THEN <<>>
    ELSE LET done == sort(list, key, i - 1)
             x == list[i]
             front == {j \in DOMAIN done : key[done[j]] <= key[x]}
         IN SubSeq(done, 1, Cardinality(front)) \o <<x>>
               \o SubSeq(done, Cardinality(front) + 1, Len(done))

\* WorldType.generate: the choices collected, in the order of the walk, and
\* sorted by their keys.
sorted_choices(W, world, random) ==
    LET found == descendants(W, world)
        unknown == SelectSeq(found, LAMBDA o : IsChoice(W, o) /\ ~W.objs[o].known)
    IN sort(unknown, random, Len(unknown))

\* min(iterable, key=...) over a tuple: the first element with the least key.
min_first(list, key) ==
    list[CHOOSE i \in DOMAIN list :
            /\ \A j \in DOMAIN list : key[list[i]] <= key[list[j]]
            /\ \A j \in 1..(i - 1) : key[list[j]] > key[list[i]]]

\* EnumEvenDistribution.make_choice: the value it takes.
enum_min(W, choice, random) ==
    min_first(SelectSeq(W.objs[choice].values,
                        LAMBDA v : v \notin Range(W.objs[choice].impossible_values)),
              random)

\* min(iterable, key=...) over a set: the element with the least key that the
\* iteration meets first, which can be any of those with the least key.
min_of_set(set, key) == {v \in set : \A w \in set : key[v] <= key[w]}

\* RandomPortStrategy.make_choice: the peers it can take for a port that
\* cannot commit.
port_min(W, choice, random) ==
    min_of_set(get_candidates(build_open_cache(W, choice), choice), random)

\* Two enums with the names in the order given and three ports.
TieWorld(names, values) ==
    LET port == Port("PortType", 0, 1, 1, 1, 1, "RandomPortStrategy")
        W1 == add_new(add_new(World, 1, names[1], EnumChoice(0, values, <<>>)),
                      1, names[2], EnumChoice(0, values, <<>>))
    IN add_new(add_new(add_new(W1, 1, "P", port), 1, "Q", port), 1, "R", port)

TieWorlds ==
    {TieWorld(names, values) :
        names \in {<<"A", "B">>, <<"B", "A">>},
        values \in {t \in Tuples(EnumValues) : Len(t) = Cardinality(EnumValues)}}

Randoms == 0..MaxRandom

\* The keys of the choices, of the values of an enum and of the peers of a
\* port; one of the three is drawn and the others are all 0.
TieSeeds(W) ==
    LET choices == {o \in DOMAIN W.objs : IsChoice(W, o)}
        zero(set) == [x \in set |-> 0]
    IN {[order |-> f, value |-> zero(EnumValues), connection |-> zero(Ports(W))] :
           f \in [choices -> Randoms]}
       \cup {[order |-> zero(choices), value |-> f, connection |-> zero(Ports(W))] :
           f \in [EnumValues -> Randoms]}
       \cup {[order |-> zero(choices), value |-> zero(EnumValues), connection |-> f] :
           f \in [Ports(W) -> Randoms]}

TieInit ==
    /\ StoreIdle
    /\ CondIdle
    /\ TreeIdle
    /\ firstRun = NoWorld /\ gen = [pc |-> "idle"]
    /\ theWorld \in TieWorlds
    /\ seed \in TieSeeds(theWorld)
    /\ plan = [type |-> "tie", op |-> "new", obj |-> 0, result |-> <<>>]

Selected(op, obj, result) ==
    /\ plan.op = "new"
    /\ plan' = [type |-> "tie", op |-> op, obj |-> obj, result |-> result]
    /\ UNCHANGED <<theWorld, firstRun, gen, seed, notWorldVars>>

\* choices.sort(key=...)
SortChoices == Selected("sort", 0, sorted_choices(theWorld, 1, seed.order))

\* EnumEvenDistribution.make_choice
EnumSelect(choice) == Selected("enum", choice, <<enum_min(theWorld, choice, seed.value)>>)

\* RandomPortStrategy.make_choice
PortSelect(choice) ==
    \E value \in port_min(theWorld, choice, seed.connection) :
        Selected("port", choice, <<value>>)

TieNext ==
    \/ SortChoices
    \/ \E choice \in {o \in DOMAIN theWorld.objs : theWorld.objs[o].kind = "EnumChoiceType"} :
          EnumSelect(choice)
    \/ \E choice \in Ports(theWorld) \ {start_port} : PortSelect(choice)

SpecTie == TieInit /\ [][TieNext]_vars

\* One of two is before the other in Python's order of the values.
ValueBefore(v, w) == Index0(<<"a", "b", "c">>, v) < Index0(<<"a", "b", "c">>, w)

\* C25 as stated: where keys are equal the order of the paths decides.  Of
\* the sorted choices those with equal keys are in the order of their paths,
\* all ascending or all descending; the value of an enum taken among values
\* with the least key is the least or the greatest of them; the peer taken
\* among ports with the least key is the one with the least or with the
\* greatest path.
TiesByPath ==
    plan.type = "tie" =>
        /\ plan.op = "sort" =>
              LET tied(i, j) == i < j /\ seed.order[plan.result[i]] = seed.order[plan.result[j]]
                  at == DOMAIN plan.result
              IN \/ \A i, j \in at : tied(i, j) => PathBefore(theWorld, plan.result[i], plan.result[j])
                 \/ \A i, j \in at : tied(i, j) => PathBefore(theWorld, plan.result[j], plan.result[i])
        /\ plan.op = "enum" =>
              LET least == min_of_set(Range(theWorld.objs[plan.obj].values), seed.value)
              IN \/ \A v \in least \ {plan.result[1]} : ValueBefore(plan.result[1], v)
                 \/ \A v \in least \ {plan.result[1]} : ValueBefore(v, plan.result[1])
        /\ plan.op = "port" =>
              LET least == min_of_set(get_candidates(build_open_cache(theWorld, plan.obj), plan.obj),
                                      seed.connection)
              IN \/ \A v \in least \ {plan.result[1]} : PathBefore(theWorld, plan.result[1], v)
                 \/ \A v \in least \ {plan.result[1]} : PathBefore(theWorld, v, plan.result[1])

\* What holds of the sort: choices with equal keys stay in the order in
\* which the walk collected them.
TiesByCollection ==
    (plan.type = "tie" /\ plan.op = "sort") =>
        LET found == descendants(theWorld, 1)
        IN \A i, j \in DOMAIN plan.result :
              (i < j /\ seed.order[plan.result[i]] = seed.order[plan.result[j]])
                 => Index0(found, plan.result[i]) < Index0(found, plan.result[j])

(***************************************************************************)
(* Known vertices.  In LoopWorld the fast_deduce of V3 finds the necessity  *)
(* loop of V1 and makes V1 known before V1 has had its own fast_deduce.     *)
(***************************************************************************)
\* A world with vertices V1 = All(V1, V3) and V3 = All(V1, V2).
LoopWorld ==
    LET V1 == FirstObject
        V2 == FirstObject + 1
        V3 == FirstObject + 2
    IN set_condition(set_condition(VertexWorld(NumCycle), V1,
                                   And(<<VertexObject(V1), VertexObject(V3)>>)),
                     V3, And(<<VertexObject(V1), VertexObject(V2)>>))

KnownInit ==
    /\ StoreIdle
    /\ CondIdle
    /\ TreeIdle
    /\ firstRun = NoWorld /\ gen = [pc |-> "idle"] /\ seed = NoRng
    /\ theWorld = LoopWorld
    /\ plan = [type |-> "fixed", op |-> "new", obj |-> 0, condition |-> NoResult,
               before |-> NoWorld, deduced |-> {}, calls |-> 0]

SpecKnown == KnownInit /\ [][FixedNext]_vars

\* The constant a known vertex is frozen to.
Frozen(v) == IF theWorld.objs[v].known_access THEN TrueCondition ELSE FalseCondition

\* C26 as stated: the three conditions of a known vertex are the constant of
\* its known_access.
KnownFrozen ==
    \A v \in UserVertices :
        theWorld.objs[v].is_known =>
            /\ theWorld.objs[v].condition = Frozen(v)
            /\ theWorld.objs[v].necessary_condition = Frozen(v)
            /\ theWorld.objs[v].sufficient_condition = Frozen(v)

\* What holds: is_known and known_access of a known vertex never change, and
\* its necessary and sufficient conditions stay the constant.
KnownStays ==
    /\ [][\A v \in UserVertices :
            theWorld.objs[v].is_known =>
                /\ theWorld'.objs[v].is_known
                /\ theWorld'.objs[v].known_access = theWorld.objs[v].known_access]_vars
    /\ [](\A v \in UserVertices :
            theWorld.objs[v].is_known =>
                /\ theWorld.objs[v].necessary_condition = Frozen(v)
                /\ theWorld.objs[v].sufficient_condition = Frozen(v))

(***************************************************************************)
(* make and eliminate on ports: P and Q deduce, which builds the cache of  *)
(* open ports, a strategy makes their choices, and the tokens it returned  *)
(* are eliminated.                                                         *)
(***************************************************************************)
MaxEliminations == 4     \* calls of a behaviour

\* The random sources that differ for the ports of a world.
PortSeeds(W) == SeedsOver({}, Ports(W), {})

EliminateInit ==
    /\ StoreIdle
    /\ CondIdle
    /\ TreeIdle
    /\ firstRun = NoWorld /\ gen = [pc |-> "idle"] /\ seed = NoRng
    /\ \E limits \in PortLimits : theWorld = PortWorld(limits)
    /\ plan = [type |-> "eliminate", calls |-> 0, op |-> "new", obj |-> 0, token |-> "",
               made |-> {}, before |-> NoWorld]

\* A call on the port obj that gave W; made lists <<choice, token>> for the
\* tokens make() returned.
EliminateCall(W, op, obj, token) ==
    /\ plan.calls < MaxEliminations
    /\ theWorld' = [W EXCEPT !.ret = FALSE]
    /\ plan' = [type |-> "eliminate", calls |-> plan.calls + 1, op |-> op, obj |-> obj,
                token |-> token,
                made |-> IF op = "make" /\ ~raised(W) /\ W.ret # ""
                         THEN plan.made \cup {<<obj, W.ret>>} ELSE plan.made,
                before |-> AtCall]
    /\ UNCHANGED <<firstRun, gen, seed, notWorldVars>>

\* port.fast_deduce()
DeducePort(p) == EliminateCall(port_fast_deduce(AtCall, p), "fast_deduce", p, "")

\* token = port.make()
MakePort(p, rng) == EliminateCall(make(AtCall, p, rng), "make", p, "")

\* port.eliminate(token) with COMMIT or a token that port.make() returned
EliminatePort(p, token) ==
    /\ token = COMMIT \/ <<p, token>> \in plan.made
    /\ EliminateCall(eliminate(AtCall, p, token), "eliminate", p, token)

EliminateNext ==
    \/ \E p \in Ports(theWorld) : DeducePort(p)
    \/ \E p \in Ports(theWorld) : \E rng \in PortSeeds(theWorld) : MakePort(p, rng)
    \/ \E p \in Ports(theWorld) :
          \E token \in {COMMIT} \cup {made[2] : made \in plan.made} : EliminatePort(p, token)

SpecEliminate == EliminateInit /\ [][EliminateNext]_vars

\* The call was eliminate(token) on a port that has a strategy.
Eliminated ==
    /\ plan.type = "eliminate" /\ plan.op = "eliminate"
    /\ plan.before.objs[plan.obj].strategy # ""

\* C32, COMMIT: after eliminate('COMMIT') the port has commit_impossible and
\* can_commit() is false.
CommitEliminated ==
    (Eliminated /\ plan.token = COMMIT) =>
        /\ ~raised(theWorld)
        /\ theWorld.objs[plan.obj].commit_impossible
        /\ ~can_commit(theWorld, plan.obj)

\* C32, a connection: after eliminate(token) with the token make() returned
\* for a connection, the port the token is the path of is in
\* impossible_connections, test_connect to it is rejected and it is not a
\* candidate.
PeerEliminated ==
    (Eliminated /\ plan.token # COMMIT) =>
        \E peer \in Ports(theWorld) :
            /\ get_string_path(theWorld, peer) = plan.token
            /\ peer \in Range(theWorld.objs[plan.obj].impossible_connections)
            /\ test_connect(theWorld, plan.obj, peer, 1, TRUE) # ""
            /\ peer \notin get_candidates(theWorld, plan.obj)

\* C32 as stated: eliminate('COMMIT') makes the commit impossible, and
\* eliminate(token) with the peer path make_choice returned makes the peer an
\* impossible connection.
EliminationTakesEffect ==
    CommitEliminated /\ PeerEliminated

\* eliminate('COMMIT') on a port that could commit.
CommitEliminatedWitness ==
    /\ Eliminated /\ plan.token = COMMIT
    /\ can_commit(plan.before, plan.obj)
    /\ ~can_commit(theWorld, plan.obj)

\* eliminate(token) with the path of the port that make() connected raised
\* ValueError and left impossible_connections empty.
PeerNotFound ==
    /\ Eliminated /\ plan.token # COMMIT
    /\ dict_has(plan.before.objs[plan.obj].chosen_connections,
                CHOOSE peer \in Ports(theWorld) : get_string_path(theWorld, peer) = plan.token)
    /\ theWorld.err = "ValueError"
    /\ theWorld.objs[plan.obj].impossible_connections = <<>>

(***************************************************************************)
(* The cache of open ports during generation, in worlds with the ports P   *)
(* and Q besides start_port.                                               *)
(***************************************************************************)
CacheWorlds ==
    {PortWorld(<<1, 1, 1, 1>>), PortWorld(<<MaxCount, 1, 1, 1>>), TwoPortWorld}

CacheInit ==
    /\ StoreIdle
    /\ CondIdle
    /\ TreeIdle
    /\ firstRun = NoWorld
    /\ gen = GenStart(1)
    /\ \E W \in CacheWorlds :
          /\ theWorld = W
          /\ seed \in Seeds(W)
          /\ plan = [type |-> "generate", self |-> W, first |-> GenStart(1)]

SpecCache == CacheInit /\ [][GenNext]_vars

PortClasses == {"PortType", "MovementPortType"}

\* The ports of a world that are not known.
OpenPorts(W) == {p \in Ports(W) : ~W.objs[p].known}

\* The open ports whose type is t or a subtype of t, and those whose
\* compatible_types has t.
OpenOfType(W, t) == {p \in OpenPorts(W) : t \in Range(bases(W.objs[p].kind))}
OpenCompatibleWith(W, t) == {p \in OpenPorts(W) : t \in Range(compatible_types(W.objs[p].kind))}

\* The ports the cache of a world lists under t.
ByType(W, t) == Range(dict_keys(dict_get(W.objs[1].open_cache.by_type, t, <<>>)))
ByCompatibleType(W, t) ==
    Range(dict_keys(dict_get(W.objs[1].open_cache.by_compatible_type, t, <<>>)))

\* The cache of the world, once built, lists the open ports and no others.
CacheExact ==
    theWorld.objs[1].open_cache.built =>
        \A t \in PortClasses :
            /\ ByType(theWorld, t) = OpenOfType(theWorld, t)
            /\ ByCompatibleType(theWorld, t) = OpenCompatibleWith(theWorld, t)

\* A step in which the port p becomes known without an exception queues the
\* ports of the other side for each class of p that it leaves empty.
CacheStep ==
    \A p \in Ports(theWorld) :
        (~theWorld.objs[p].known /\ theWorld'.objs[p].known /\ ~raised(theWorld')) =>
            LET queue == Range(theWorld'.objs[1].fast_deduction_objects)
            IN /\ \A t \in PortClasses : p \notin ByType(theWorld', t) \cup ByCompatibleType(theWorld', t)
               /\ \A t \in Range(bases(theWorld.objs[p].kind)) :
                     OpenOfType(theWorld', t) = {}
                        => OpenCompatibleWith(theWorld, t) \subseteq queue
               /\ \A t \in Range(compatible_types(theWorld.objs[p].kind)) :
                     OpenCompatibleWith(theWorld', t) = {}
                        => OpenOfType(theWorld, t) \ {p} \subseteq queue

\* C33: once the cache is built, in every state of generation by_type[t]
\* holds exactly the ports that are not known and have the type t or a
\* subtype, by_compatible_type[t] exactly those that are not known and have t
\* in compatible_types; a port that becomes known is in neither, and when
\* that empties one of its classes the ports of that class on the other side
\* are queued for fast deduction.
OpenCacheInvariant ==
    [](CacheExact) /\ [][CacheStep]_vars

\* P and Q are known, which emptied by_compatible_type[PortType], and
\* start_port, the open port left of type PortType, is queued.
OpenCacheInvariantWitness ==
    /\ gen.pc = "deduce" /\ theWorld.objs[1].open_cache.built
    /\ \A p \in Ports(theWorld) : theWorld.objs[p].known <=> p # start_port
    /\ dict_has(theWorld.objs[1].open_cache.by_compatible_type, "PortType")
    /\ ByCompatibleType(theWorld, "PortType") = {}
    /\ ByType(theWorld, "PortType") = {start_port}
    /\ start_port \in Range(Queue)

(***************************************************************************)
(* get_candidates on the ports P, Q and start_port as a program connects,  *)
(* commits and deduces them.  The set of candidates pops in any order.     *)
(***************************************************************************)
MaxCandidateCalls == 4     \* calls of a behaviour

CandidatesInit ==
    /\ StoreIdle
    /\ CondIdle
    /\ TreeIdle
    /\ firstRun = NoWorld /\ gen = [pc |-> "idle"] /\ seed = NoRng
    /\ \E limits \in PortLimits : theWorld = PortWorld(limits)
    /\ plan = [type |-> "candidates", calls |-> 0, op |-> "new", obj |-> 0, result |-> {}]

CandidatesCall(W, op, obj, result) ==
    /\ plan.calls < MaxCandidateCalls
    /\ Capped(W)
    /\ theWorld' = W
    /\ plan' = [type |-> "candidates", calls |-> plan.calls + 1, op |-> op, obj |-> obj,
                result |-> result]
    /\ UNCHANGED <<firstRun, gen, seed, notWorldVars>>

\* port.fast_deduce(), which builds the cache
DeduceFirst(p) == CandidatesCall(port_fast_deduce(AtCall, p), "fast_deduce", p, {})

\* port.multi_connect(other)
ConnectOnce(p, q) == CandidatesCall(multi_connect(AtCall, p, q, 1), "multi_connect", p, {})

\* port.commit()
CommitOne(p) == CandidatesCall(commit(AtCall, p), "commit", p, {})

\* port.impossible_connections += (other,)
Exclude(p, q) ==
    /\ q \notin Range(theWorld.objs[p].impossible_connections)
    /\ CandidatesCall([AtCall EXCEPT !.objs[p].impossible_connections = Append(@, q)],
                      "exclude", p, {})

\* port.get_candidates() in a world that has its cache
GetCandidates(p, order) ==
    /\ theWorld.objs[1].open_cache.built
    /\ CandidatesCall(AtCall, "get_candidates", p, get_candidates_returned(AtCall, p, order))

CandidatesNext ==
    \/ \E p \in Ports(theWorld) : DeduceFirst(p)
    \/ \E p, q \in Ports(theWorld) : ConnectOnce(p, q)
    \/ \E p \in Ports(theWorld) : CommitOne(p)
    \/ \E p, q \in Ports(theWorld) : Exclude(p, q)
    \/ \E p \in Ports(theWorld) : \E order \in Orders(Ports(theWorld)) : GetCandidates(p, order)

SpecCandidates == CandidatesInit /\ [][CandidatesNext]_vars

\* get_candidates() was the call, on the port plan.obj; it changes nothing.
Asked == plan.type = "candidates" /\ plan.op = "get_candidates"

\* q is open and in the intersection for p: not known, of a type p is
\* compatible with, with the type of p among its compatible types.
InIntersection(p, q) ==
    /\ ~theWorld.objs[q].known
    /\ Range(compatible_types(theWorld.objs[p].kind)) \cap Range(bases(theWorld.objs[q].kind)) # {}
    /\ Range(compatible_types(theWorld.objs[q].kind)) \cap Range(bases(theWorld.objs[p].kind)) # {}

\* One more connection from p to q passes the test.
Passes(p, q) == test_multi_connect(theWorld, p, q, 1) = ""

\* C34 as stated: every port get_candidates() returns is open, in the
\* intersection, not an impossible connection, and passes
\* test_multi_connect(peer, 1).
CandidatesAllPass ==
    Asked =>
        \A q \in plan.result :
            /\ InIntersection(plan.obj, q)
            /\ q \notin Range(theWorld.objs[plan.obj].impossible_connections)
            /\ Passes(plan.obj, q)

\* C34: every port get_candidates() returns is open, in the intersection and
\* not an impossible connection; every such port that passes
\* test_multi_connect(peer, 1) is returned, and when the set returned is not
\* empty one of its ports passes.  The loop stops at the first port that
\* passes, so the ports it has not popped are returned untested.
CandidatesMayPass ==
    Asked =>
        /\ \A q \in plan.result :
              /\ InIntersection(plan.obj, q)
              /\ q \notin Range(theWorld.objs[plan.obj].impossible_connections)
        /\ \A q \in Ports(theWorld) :
              (/\ InIntersection(plan.obj, q)
               /\ q \notin Range(theWorld.objs[plan.obj].impossible_connections)
               /\ Passes(plan.obj, q)) => q \in plan.result
        /\ plan.result # {} => \E q \in plan.result : Passes(plan.obj, q)

\* get_candidates() returned a port that passes and one that does not.
CandidatesMayPassWitness ==
    /\ Asked
    /\ \E q, r \in plan.result : Passes(plan.obj, q) /\ ~Passes(plan.obj, r)

\* get_candidates() dropped a port that failed the test and returned one
\* that passes.
CandidateDropped ==
    /\ Asked /\ plan.result # {}
    /\ \E q \in Ports(theWorld) \ plan.result :
          /\ InIntersection(plan.obj, q) /\ ~Passes(plan.obj, q)
          /\ q \notin Range(theWorld.objs[plan.obj].impossible_connections)

(***************************************************************************)
(* An iteration over items() of a dictionary that the caller fills and     *)
(* then changes between the next() calls on the generator.  plan.g is the  *)
(* generator; plan.stable lists the keys that were there at the first      *)
(* next() and were not deleted since, plan.touched tells whether a key was *)
(* inserted or deleted since.                                              *)
(***************************************************************************)
MaxYields == 4       \* next() calls on the generator
MaxChanges == 2      \* d[k] = v and del d[k] calls after the first next()

IterInit ==
    /\ CondIdle
    /\ TreeIdle
    /\ theWorld = NoWorld /\ firstRun = NoWorld /\ gen = [pc |-> "idle"] /\ seed = NoRng
    /\ scope = Scope("BranchingOrderedDictionary", 0, {}, MaxKey, MaxVal, FALSE)
    /\ objs = new_object(scope.type).objs
    /\ h2o = new_object(scope.type).h2o
    /\ nUni = 1
    /\ related = new_object(scope.type).rel
    /\ held = {1}
    /\ lastOp = Call("new", 1, Attr(""), 0)
    /\ plan = [type |-> "items", g |-> NewGenerator, nexts |-> 0, yielded |-> <<>>,
               first |-> <<>>, stable |-> {}, touched |-> FALSE, changes |-> 0,
               length |-> 0]

Running == plan.g.pc \in {"new", "yielded"}

\* A call that changed the dictionary into that of the store S.
Change(S, call) ==
    /\ Running /\ plan.changes < MaxChanges
    /\ objs' = S.objs /\ h2o' = S.h2o /\ nUni' = S.nUni /\ related' = S.rel /\ held' = S.held
    /\ lastOp' = [call EXCEPT !.err = S.err]
    /\ plan' = IF plan.g.pc = "new" THEN plan
               ELSE [plan EXCEPT !.changes = @ + 1,
                                 !.stable = @ \cap Keys(items(S, 1)),
                                 !.touched = @ \/ Keys(items(S, 1)) # Keys(items(Store, 1))]
    /\ UNCHANGED <<scope, condVars, theWorld, firstRun, gen, seed, treeVars>>

\* d[k] = v
StoreItem(k, v) == Change(setitem(Store, 1, k, v), Call("setitem", 1, <<"", k>>, v))

\* del d[k]
DeleteItem(k) == Change(delitem(Store, 1, k), Call("delitem", 1, <<"", k>>, 0))

\* next(generator); plan.length is len(d) at the call.
NextItem ==
    /\ Running /\ plan.nexts < MaxYields
    /\ LET g == items_next(Store, 1, plan.g)
       IN plan' = [plan EXCEPT !.g = g, !.nexts = @ + 1,
                               !.yielded = IF g.pc = "yielded" THEN Append(@, g.item) ELSE @,
                               !.first = IF plan.g.pc = "new" THEN items(Store, 1) ELSE @,
                               !.stable = IF plan.g.pc = "new" THEN Keys(items(Store, 1)) ELSE @,
                               !.length = len(Store, 1)]
    /\ lastOp' = Call("next", 1, Attr(""), 0)
    /\ UNCHANGED <<objs, h2o, nUni, related, held, scope, condVars, theWorld, firstRun, gen,
                   seed, treeVars>>

IterNext ==
    \/ \E k \in DictKeys, v \in Values : StoreItem(k, v)
    \/ \E k \in DictKeys : DeleteItem(k)
    \/ NextItem

SpecIter == IterInit /\ [][IterNext]_vars

\* The last call was a next() that resumed the generator at its yield.
Resumed == plan.type = "items" /\ lastOp.op = "next" /\ plan.nexts >= 2

\* The keys of the items yielded, in the order of the yields.
YieldedKeys == [i \in DOMAIN plan.yielded |-> plan.yielded[i][1]]

\* C35, the error: a next() that resumes the iteration raises RuntimeError
\* exactly when len() differs from what it was at the first next().
SizeChangeRaises ==
    Resumed => (plan.g.pc = "RuntimeError" <=> plan.length # Len(plan.first))

\* The iteration ended without an error.
Ended == plan.type = "items" /\ plan.g.pc = "done"

\* C35 as stated: a resumed iteration raises when the number of items has
\* changed, and an iteration that met no change of size and ended has
\* yielded every item once, in order: each key that was there all along
\* once, and the keys in the order the dictionary has them.
SizeUnchangedYieldsAll ==
    /\ SizeChangeRaises
    /\ Ended =>
          /\ \A k \in plan.stable :
                Cardinality({i \in DOMAIN YieldedKeys : YieldedKeys[i] = k}) = 1
          /\ \A i, j \in DOMAIN YieldedKeys :
                (i < j /\ {YieldedKeys[i], YieldedKeys[j]} \subseteq Keys(items(Store, 1)))
                    => Index(items(Store, 1), YieldedKeys[i])
                          < Index(items(Store, 1), YieldedKeys[j])

\* C35: a next() that resumes the iteration raises RuntimeError exactly when
\* len() differs from what it was at the first next(), so a deletion
\* followed by an insertion is not noticed; an iteration during which no key
\* was inserted or deleted yields every item once in order, with the value
\* the key has at the yield, and ends.
UntouchedYieldsAll ==
    /\ SizeChangeRaises
    /\ (Running \/ Ended) /\ ~plan.touched /\ plan.type = "items" =>
          /\ plan.g.pc \notin {"AttributeError", "RuntimeError"}
          /\ YieldedKeys = SubSeq([i \in DOMAIN plan.first |-> plan.first[i][1]],
                                  1, Len(YieldedKeys))
          /\ Ended => Len(YieldedKeys) = Len(plan.first)
          /\ (plan.g.pc = "yielded" /\ lastOp.op = "next")
                => plan.g.item = <<plan.g.key, getattr(Store, 1, <<"_valuefor", plan.g.key>>)>>

\* An iteration over three items ended with all three yielded, a value
\* having been overwritten on the way.
UntouchedYieldsAllWitness ==
    /\ Ended /\ ~plan.touched /\ Len(plan.yielded) = 3
    /\ \E i \in 1..3 : plan.yielded[i] # plan.first[i]

\* next() raised RuntimeError after an insertion at the last item.
RaisedAtLastItem ==
    /\ Resumed /\ plan.g.pc = "RuntimeError"
    /\ plan.length = Len(plan.first) + 1
    /\ Len(plan.yielded) = Len(plan.first)

\* The iteration ended after one item although another was there all along:
\* the key at the yield was deleted and another inserted.
EndedEarly ==
    /\ Ended /\ Len(plan.yielded) = 1 /\ plan.stable # {}
    /\ plan.stable \cap Keys(plan.yielded) = {}

(***************************************************************************)
(* Generation in worlds whose ports ask for more than one connection: P    *)
(* takes two connections and asks for two peers, Q takes up to two.        *)
(***************************************************************************)
\* Port(maximum_connections=2, maximum_unique_connections=2,
\* minimum_connections=2, minimum_unique_connections=2) and a port Q with
\* the minimums of the class.
MinimumWorld ==
    add_new(add_new(World, 1, "P", Port("PortType", 0, 2, 2, 2, 2, "RandomPortStrategy")),
            1, "Q", Port("PortType", 0, 2, 2, 1, 1, "RandomPortStrategy"))

CommitInit ==
    /\ StoreIdle
    /\ CondIdle
    /\ TreeIdle
    /\ firstRun = NoWorld
    /\ gen = GenStart(1)
    /\ \E W \in {MinimumWorld, PortWorld(<<1, 1, 1, 1>>)} :
          /\ theWorld = W
          /\ seed \in Seeds(W)
          /\ plan = [type |-> "generate", self |-> W, first |-> GenStart(1)]

SpecCommit == CommitInit /\ [][GenNext]_vars

\* The connections the port committed meet its minimums.
MeetsMinimums(W, p) ==
    /\ Len(get_value(W, p)) >= W.objs[p].minimum_unique_connections
    /\ dict_sum(get_value(W, p)) >= W.objs[p].minimum_connections

\* C36 as stated: a port that generation has made known, by the commit of
\* fast_deduce or of the strategy, has at least minimum_unique_connections
\* peers and at least minimum_connections connections.
CommittedMeetsMinimums ==
    \A p \in Ports(theWorld) : theWorld.objs[p].known => MeetsMinimums(theWorld, p)

\* What holds of the commits of the strategy: a make() that made the port
\* known was on a port that meets its minimums.
StrategyMeetsMinimums ==
    [][\A p \in Ports(theWorld) :
          (/\ gen.pc = "choose" /\ gen'.pc = "deduce" /\ Len(gen'.trace) > Len(gen.trace)
           /\ ~theWorld.objs[p].known /\ theWorld'.objs[p].known)
              => MeetsMinimums(theWorld', p)]_vars

\* generate returned a world in which P is known with two connections to
\* one peer, and asks for two peers.
CommittedBelowMinimum ==
    /\ gen.pc = "returned"
    /\ \E p \in Ports(theWorld) :
          /\ theWorld.objs[p].known
          /\ Len(get_value(theWorld, p)) = 1 /\ dict_sum(get_value(theWorld, p)) = 2
          /\ theWorld.objs[p].minimum_unique_connections = 2

(***************************************************************************)
(* Runs of generate to their end, in worlds with ports P and Q that have   *)
(* no maximum or the maximum of the class.  A port without maximum takes   *)
(* connections without end; the model follows it up to MaxSum.             *)
(***************************************************************************)
TermWorlds ==
    {PortWorld(<<NoLimit, NoLimit, NoLimit, NoLimit>>), PortWorld(<<NoLimit, NoLimit, 1, 1>>),
     PortWorld(<<1, 1, 1, 1>>)}

TermInit ==
    /\ StoreIdle
    /\ CondIdle
    /\ TreeIdle
    /\ firstRun = NoWorld
    /\ gen = GenStart(1)
    /\ \E W \in TermWorlds :
          /\ theWorld = W
          /\ seed \in Seeds(W)
          /\ plan = [type |-> "generate", self |-> W, first |-> GenStart(1)]

\* token = choice.make(), as long as no port has more than MaxSum connections
MakeCapped ==
    /\ MakeChoice
    /\ Capped(theWorld')

TermNext ==
    \/ Generate
    \/ \E order \in Orders(UserVertices) : DeduceTurn(order)
    \/ Collect
    \/ Pop
    \/ MakeCapped
    \/ ReturnWorld

\* The next make() of the run raises nothing and passes MaxSum.
AtBound ==
    /\ gen.pc = "choose" /\ gen.choices # <<>>
    /\ ~theWorld.objs[Last(gen.choices)].known
    /\ ~Capped(make(theWorld, Last(gen.choices), seed))

\* A step of TermNext can be taken: in every position of generate but the
\* last ones a step follows, the make() past MaxSum excepted.
CanStep ==
    /\ gen.pc \notin {"returned", "raised"}
    /\ ~AtBound

\* generate runs on: a step that can be taken is taken.  This is weak
\* fairness of TermNext, with CanStep as its condition of being enabled.
Runs ==
    []<>(~CanStep) \/ []<><<TermNext>>_vars

\* The events of the trace that are make() calls.
Makes == {i \in DOMAIN gen.trace : gen.trace[i][1] = "make"}

\* generate returns when it can: weak fairness of its last step.
SpecTerm == TermInit /\ [][TermNext]_vars /\ Runs /\ WF_vars(ReturnWorld) /\ WF_vars(Pop)

\* In a world whose ports have no maximum, with a seed that puts a
\* connection before COMMIT, a run that made a choice has not returned or
\* raised: no step leads out of the loop.
NeverLeaves ==
    (/\ \A p \in Ports(plan.self) : plan.self.objs[p].maximum_connections = NoLimit
     /\ ~seed.commit
     /\ Makes # {})
        => gen.pc \notin {"returned", "raised"}

\* C37 as stated: generate returns unless a fast_deduce or a strategy raises.
Termination ==
    <>(gen.pc \in {"returned", "raised"})

\* What holds of the worlds whose ports all have a maximum.
LimitedTerminates ==
    (\A p \in Ports(plan.self) : plan.self.objs[p].maximum_connections # NoLimit)
        => Termination

\* What holds of world.deduce(): it empties the queue or raises.
DeduceEnds ==
    (gen.pc = "deduce") ~> (gen.pc # "deduce")

\* The choice loop made the same choice MaxSum times with the same token and
\* no exception, the choice is not known, can take the same connection once
\* more, and is the choice the loop turns to next.
MadeAgainAndAgain ==
    /\ gen.pc = "choose" /\ gen.choices # <<>> /\ ~raised(theWorld)
    /\ LET choice == Last(gen.choices)
       IN /\ ~theWorld.objs[choice].known
          /\ Cardinality({i \in Makes : gen.trace[i][2] = choice}) = MaxSum
          /\ \A i, j \in Makes : gen.trace[i][3] = gen.trace[j][3]
          /\ ~raised(make(theWorld, choice, seed))
          /\ \A i \in Makes : gen.trace[i][3] = make(theWorld, choice, seed).ret

\* Every step of the run starts where CanStep holds.
StepsWhereCanStep ==
    [][CanStep]_vars

(***************************************************************************)
(* Deduction in a world whose vertices all have an exact condition built   *)
(* from True, False, AtLeast and vertices, given before generation; the    *)
(* necessary and sufficient conditions stay the placeholders.              *)
(***************************************************************************)
\* The conditions a program gives: True, False, a vertex, all of two
\* vertices, any of two vertices, two of the three vertices.
Exact ==
    {TrueCondition, FalseCondition}
       \cup Conditions("vertex") \cup Conditions("all") \cup Conditions("any")
       \cup {AtLeast(NumCycle - 1, <<List([i \in 1..NumCycle |-> VertexObject(FirstObject + i - 1)])>>)}

RECURSIVE GiveEach(_, _, _)
\* vertex.condition = given[vertex], for the vertices from v on
GiveEach(W, given, v) ==
    IF v \notin UserVertices THEN W
    ELSE GiveEach(set_condition(W, v, given[v]), given, v + 1)

SoundInit ==
    /\ StoreIdle
    /\ CondIdle
    /\ TreeIdle
    /\ firstRun = NoWorld /\ gen = [pc |-> "idle"] /\ seed = NoRng
    /\ \E given \in [UserVertices -> Exact] :
          /\ plan = [type |-> "sound", given |-> given]
          /\ theWorld = GiveEach(VertexWorld(NumCycle), given, FirstObject)

SoundCall(W) ==
    /\ ~raised(theWorld)
    /\ theWorld' = W
    /\ UNCHANGED <<firstRun, gen, seed, plan, notWorldVars>>

\* WorldType.generate up to world.deduce()
SoundStart ==
    /\ ~Started
    /\ SoundCall(generate_start(theWorld, 1))

\* WorldType.deduce: one turn of its loop
SoundDeduce(order) ==
    /\ Queue # <<>>
    /\ SoundCall(deduce_step(theWorld, 1, order))

\* vertex.mark_fast_deduction(), when the world has deduced
SoundMark(v) ==
    /\ Started /\ Queue = <<>>
    /\ SoundCall(mark_fast_deduction(theWorld, v))

SoundNext ==
    \/ SoundStart
    \/ \E order \in Orders(UserVertices) : SoundDeduce(order)
    \/ \E v \in UserVertices : SoundMark(v)

SpecSound == SoundInit /\ [][SoundNext]_vars

\* The least fixed point of the conditions given: the vertices that are
\* derivable, found by NumCycle rounds from the empty set.
Derivable ==
    LET F[n \in 0..NumCycle] ==
            IF n = 0 THEN {}
            ELSE {v \in UserVertices : Holds(plan.given[v], F[n - 1])}
    IN F[NumCycle]

RunToEmpty == Started /\ Queue = <<>> /\ ~raised(theWorld)

\* C38: whenever the queue has run to empty, a known vertex is accessible
\* exactly when it is derivable from the conditions given, and a vertex is
\* derivable exactly when the vertex it is equivalent to is.
DeductionSound ==
    RunToEmpty =>
        \A v \in UserVertices :
            /\ theWorld.objs[v].is_known
                  => (theWorld.objs[v].known_access <=> v \in Derivable)
            /\ theWorld.objs[v].equivalent_to # 0
                  => (v \in Derivable <=> theWorld.objs[v].equivalent_to \in Derivable)

\* The queue has run to empty with a vertex known accessible and a vertex
\* known not accessible whose condition is not a constant but two vertices.
DeductionSoundWitness ==
    /\ RunToEmpty
    /\ \E v \in UserVertices : theWorld.objs[v].is_known /\ theWorld.objs[v].known_access
    /\ \E v \in UserVertices :
          /\ theWorld.objs[v].is_known /\ ~theWorld.objs[v].known_access
          /\ plan.given[v].op = "AtLeastCondition"

\* The queue has run to empty with a vertex equivalent to another, both not
\* known, from conditions that are any of two vertices.
EquivalentUnknown ==
    /\ RunToEmpty
    /\ \A v \in UserVertices : plan.given[v] \in Conditions("any")
    /\ \E v \in UserVertices :
          /\ theWorld.objs[v].equivalent_to # 0 /\ ~theWorld.objs[v].is_known

\* No deduction of these worlds raises.
DeductionRaisesNothing ==
    ~raised(theWorld)

(***************************************************************************)
(* Paths in a tree of game objects.  An object keeps the path it computed  *)
(* in _path; plan.cached is _path of each object, <<>> for None.           *)
(***************************************************************************)
PathObjects == 3     \* game objects of a behaviour
MaxPathCalls == 5    \* calls of a behaviour

PathObjs == 1..PathObjects

RECURSIVE get_path(_, _, _)
\* GameObjectType._get_path: _path of every object after self.path, which
\* returns the _path of self.
get_path(W, cached, self) ==
    IF cached[self] # <<>> THEN cached
    ELSE IF W.objs[self].parent = 0 THEN [cached EXCEPT ![self] = <<get_name(W, self)>>]
    ELSE LET read == get_path(W, cached, W.objs[self].parent)
         IN [read EXCEPT ![self] = Append(read[W.objs[self].parent], get_name(W, self))]

RECURSIVE walk_tuple(_, _, _, _)
\* GameObjectType.object_from_path: parent = parent.children[path[pos]] from
\* pos on, path a tuple of names.
walk_tuple(W, parent, tuple, pos) ==
    LET children == W.objs[parent].children
    IN IF pos > Len(tuple) THEN [err |-> "", obj |-> parent]
       ELSE IF ~dict_has(children, tuple[pos]) THEN [err |-> "KeyError", obj |-> 0]
       ELSE walk_tuple(W, dict_get(children, tuple[pos], 0), tuple, pos + 1)

\* GameObjectType.object_from_path(path) with a tuple of names
object_from_tuple(W, self, tuple) ==
    LET parent == find_root(W, self, tuple[1], 0)
    IN IF parent = 0 THEN [err |-> "ValueError", obj |-> 0]
       ELSE walk_tuple(W, parent, tuple, 2)

\* add_child and remove_child end with child._path = None; an add_child to
\* the parent the child has returns before.
path_reset(W, cached, child, after) ==
    IF raised(after) \/ after.objs = W.objs THEN cached
    ELSE [cached EXCEPT ![child] = <<>>]

RECURSIVE Ancestors(_, _)
\* o and the objects above it
Ancestors(W, o) ==
    IF o = 0 THEN {} ELSE {o} \cup Ancestors(W, W.objs[o].parent)

PathInit ==
    /\ StoreIdle
    /\ CondIdle
    /\ TreeIdle
    /\ firstRun = NoWorld /\ gen = [pc |-> "idle"] /\ seed = NoRng
    /\ theWorld = [objs |-> [o \in PathObjs |-> GameObject("GameType", 0)],
                   err |-> "", ret |-> FALSE]
    /\ plan = [type |-> "paths", calls |-> 0, op |-> "", obj |-> 0,
               cached |-> [o \in PathObjs |-> <<>>], read |-> {}]

\* The effect of a call that gave W and the paths cached: plan.read are the
\* objects whose path was read.
PathCall(W, cached, op, obj) ==
    /\ plan.calls < MaxPathCalls
    /\ theWorld' = W
    /\ plan' = [plan EXCEPT !.calls = @ + 1, !.op = op, !.obj = obj, !.cached = cached,
                            !.read = IF op = "path" THEN @ \cup {obj} ELSE @]
    /\ UNCHANGED <<firstRun, gen, seed, notWorldVars>>

\* self.path
ReadPath(self) ==
    PathCall(AtCall, get_path(AtCall, plan.cached, self), "path", self)

\* self.add_child(child, name), for a child that is not self or above it
PathAddChild(self, child, name) ==
    /\ child \notin Ancestors(theWorld, self)
    /\ PathCall(add_child(AtCall, self, child, name),
                path_reset(AtCall, plan.cached, child, add_child(AtCall, self, child, name)),
                "add_child", child)

\* self.remove_child(child)
PathRemoveChild(self, child) ==
    PathCall(remove_child(AtCall, self, child),
             path_reset(AtCall, plan.cached, child, remove_child(AtCall, self, child)),
             "remove_child", child)

PathNext ==
    \/ \E self \in PathObjs : ReadPath(self)
    \/ \E self, child \in PathObjs, name \in {"", "x"} : PathAddChild(self, child, name)
    \/ \E self, child \in PathObjs : PathRemoveChild(self, child)

SpecPath == PathInit /\ [][PathNext]_vars

\* What o.path returns in this state.
PathOf(o) == get_path(theWorld, plan.cached, o)[o]

Root(o) == CHOOSE r \in Ancestors(theWorld, o) : theWorld.objs[r].parent = 0

\* The path of o is the path of its parent followed by its name, or its name
\* alone, and the root of o finds o by it.
PathConsistent(o) ==
    /\ PathOf(o) = IF theWorld.objs[o].parent = 0 THEN <<get_name(theWorld, o)>>
                   ELSE Append(PathOf(theWorld.objs[o].parent), get_name(theWorld, o))
    /\ object_from_tuple(theWorld, Root(o), PathOf(o)) = [err |-> "", obj |-> o]

\* C39 as stated: after any path reads, add_child and remove_child calls, the
\* path of every object is the path of its parent followed by its name, or
\* its name alone when it has no parent, and root.object_from_path(o.path)
\* returns o.
PathConsistency ==
    plan.type = "paths" => \A o \in PathObjs : PathConsistent(o)

\* What holds: the path of an object no ancestor of which was moved or
\* removed since it was read is consistent; so is every path when no path
\* was read.
UnreadConsistent ==
    (plan.type = "paths" /\ plan.read = {}) => \A o \in PathObjs : PathConsistent(o)

\* An object with a parent was given another parent after the path of its
\* child was read: the child has the path it had, which its root does not
\* find.
StalePath ==
    /\ plan.type = "paths" /\ plan.op = "add_child"
    /\ \E o \in PathObjs :
          /\ theWorld.objs[o].parent = plan.obj
          /\ theWorld.objs[plan.obj].parent # 0
          /\ Len(PathOf(o)) = 2
          /\ object_from_tuple(theWorld, Root(o), PathOf(o)).err = "KeyError"

(***************************************************************************)
(* clear() on a dictionary the caller fills.  After a clear(), plan.fresh  *)
(* is a dictionary made anew that gets the calls the dictionary gets.      *)
(***************************************************************************)
MaxClearCalls == 5   \* calls of a behaviour

RECURSIVE clear_loop(_, _, _)
\* BranchingOrderedDictionary.clear: while self._count: del self._first
clear_loop(S, o, fuel) ==
    IF raised(S) \/ getattr(S, o, Attr("_count")) = 0 THEN S
    ELSE IF fuel = 0 THEN [S EXCEPT !.err = "hang"]
    ELSE clear_loop(delattr(getattr_effect(S, o), o, Attr("_first")), o, fuel - 1)

clear(S, o) ==
    clear_loop(S, o, MaxKey + 1)

\* BranchingOrderedDictionary()
FreshDictionary ==
    LET made == new_object("BranchingOrderedDictionary")
    IN [objs |-> made.objs, h2o |-> made.h2o, nUni |-> 1, rel |-> made.rel, held |-> {1},
        err |-> ""]

ClearInit ==
    /\ CondIdle
    /\ TreeIdle
    /\ theWorld = NoWorld /\ firstRun = NoWorld /\ gen = [pc |-> "idle"] /\ seed = NoRng
    /\ scope = Scope("BranchingOrderedDictionary", 0, {}, MaxKey, MaxVal, FALSE)
    /\ objs = FreshDictionary.objs
    /\ h2o = FreshDictionary.h2o
    /\ nUni = 1
    /\ related = FreshDictionary.rel
    /\ held = {1}
    /\ lastOp = Call("new", 1, Attr(""), 0)
    /\ plan = [type |-> "clear", calls |-> 0, cleared |-> FALSE, length |-> 0,
               fresh |-> FreshDictionary]

\* A call that gave the store S; fresh is the dictionary made anew after it.
ClearCall(S, call, cleared, fresh) ==
    /\ plan.calls < MaxClearCalls
    /\ objs' = S.objs /\ h2o' = S.h2o /\ nUni' = S.nUni /\ related' = S.rel /\ held' = S.held
    /\ lastOp' = [call EXCEPT !.err = S.err]
    /\ plan' = [plan EXCEPT !.calls = @ + 1, !.cleared = cleared, !.length = len(Store, 1),
                            !.fresh = [fresh EXCEPT !.err = ""]]
    /\ UNCHANGED <<scope, condVars, theWorld, firstRun, gen, seed, treeVars>>

\* d[k] = v
ClearSetItem(k, v) ==
    ClearCall(setitem(Store, 1, k, v), Call("setitem", 1, <<"", k>>, v), plan.cleared,
              setitem(plan.fresh, 1, k, v))

\* del d[k]
ClearDelItem(k) ==
    ClearCall(delitem(Store, 1, k), Call("delitem", 1, <<"", k>>, 0), plan.cleared,
              delitem(plan.fresh, 1, k))

\* d.clear()
Clear ==
    ClearCall(clear(Store, 1), Call("clear", 1, Attr(""), 0), TRUE, FreshDictionary)

ClearNext ==
    \/ \E k \in DictKeys, v \in Values : ClearSetItem(k, v)
    \/ \E k \in DictKeys : ClearDelItem(k)
    \/ Clear

SpecClear == ClearInit /\ [][ClearNext]_vars

\* C40 as stated: clear() returns without error and leaves the dictionary
\* empty: len() is 0, items() yields nothing and no key is contained; and
\* after it the dictionary is what a dictionary made anew is after the same
\* insertions.
ClearEmpties ==
    plan.type = "clear" =>
        /\ lastOp.op = "clear" =>
              /\ lastOp.err = ""
              /\ len(Store, 1) = 0
              /\ items(Store, 1) = <<>>
              /\ \A k \in DictKeys : ~contains(Store, 1, k)
        /\ plan.cleared =>
              /\ len(Store, 1) = len(plan.fresh, 1)
              /\ items(Store, 1) = items(plan.fresh, 1)

\* What holds: clear() of an empty dictionary returns and changes nothing,
\* and clear() of a dictionary with items raises KeyError at its second
\* del self._first, with every item still there and _first gone.
ClearRaises ==
    (plan.type = "clear" /\ lastOp.op = "clear") =>
        /\ lastOp.err = (IF plan.length = 0 THEN "" ELSE "KeyError")
        /\ len(Store, 1) = plan.length
        /\ plan.length > 0 => ~hasattr(Store, 1, Attr("_first"))

\* clear() of a dictionary of MaxKey items raised, and the items are there.
ClearRaised ==
    /\ plan.type = "clear" /\ lastOp.op = "clear" /\ lastOp.err = "KeyError"
    /\ len(Store, 1) = MaxKey
    /\ \A k \in DictKeys : contains(Store, 1, k)

====
